---- MODULE Spec2Model ----
(***************************************************************************)
(* A model of the FAT16/FAT32 engine of mmculib (src/fat_fs/fat.c), and,   *)
(* in the last sections, of its line buffer (src/tty/linebuffer.c) and of  *)
(* the checksum of its SD card driver (src/unnamed/part_000).              *)
(*                                                                         *)
(* The device is an array of sectors.  A sector is a sequence of           *)
(* bytes_per_sector cells.  One cell stands for one unit of whatever the   *)
(* code reads from the sector: one FAT entry of a FAT sector, one 32-byte  *)
(* directory slot of a directory sector, one data byte of a data sector.   *)
(* A cell is a record with the fields of fat_de_t; the first name byte is  *)
(* also the value of the cell seen as a FAT entry or a data byte, so that  *)
(* a zero-filled sector is at once free FAT entries, empty slots and zero  *)
(* data, as in the C code where they share fat_fs->sector_buffer.          *)
(*                                                                         *)
(* uint32_t is modelled in 29 bits (TLC integers are 32-bit signed), so    *)
(* that the masked end-of-chain value 0x0FFFFFF8 keeps its true value;     *)
(* uint16_t and uint8_t keep their width.                                  *)
(***************************************************************************)
EXTENDS Integers, Sequences, FiniteSets, TLC

\* vol is what the device holds outside the sectors the model keeps in dev:
\* the partition record and the BIOS parameter block
\* lb is the line buffer of src/tty/linebuffer.c and sd the checksum loop of
\* the SD card driver; the FAT engine never touches them
VARIABLES fs, dev, vol, fat, last, hist, nops, lb, sd

vars == <<fs, dev, vol, fat, last, hist, nops, lb, sd>>

(***************************************************************************)
(* Widths and the constants of fat.c                                       *)
(***************************************************************************)
U32 == 2^29
U16 == 65536
U8 == 256

MSDOSFSROOT == 0
CLUST_FREE == 0
CLUST_FIRST == 2
CLUST_BAD == U32 - 9
CLUST_EOFS == U32 - 8
CLUST_EOFE == U32 - 1
FAT16_MASK == U16 - 1
FAT32_MASK == 2^28 - 1

SLOT_EMPTY == 0
SLOT_DELETED == 229
ATTR_NORMAL == 0
ATTR_VOLUME == 8
ATTR_LONG_FILENAME == 15
ATTR_DIRECTORY == 16
WIN_LAST == 64
WIN_CNT == 63
WIN_CHARS == 13
FAT_MAXLEN == 256
FAT_MAXLEN_USE == 32

O_RDONLY == 0
O_WRONLY == 1
O_RDWR == 2
O_APPEND == 8
O_CREAT == 512
O_TRUNC == 1024

SEEK_SET == 0
SEEK_CUR == 1
SEEK_END == 2

\* characters
\* the line buffer and the card before any call on them
NoLine == [v |-> 0, ring |-> <<>>, newlines |-> 0, op |-> "none", ret |-> 0,
           size |-> 0, buffer |-> <<>>, stray |-> {}]

NoCard == [op |-> "none", size |-> 0, seed |-> 0, crc |-> 0, i |-> 0, folded |-> 0,
           wrapped |-> FALSE, done |-> TRUE]

CH_SPACE == 32
CH_STAR == 42
CH_DOT == 46
CH_SLASH == 47
CH_QUERY == 63

\* x & m for a mask m = 2^k - 1
BitAnd(x, m) == x % (m + 1)

\* mode & flag for a single-bit flag
HasFlag(mode, flag) == (mode \div flag) % 2 = 1

Min(a, b) == IF a < b THEN a ELSE b

\* the byte at index i (1-based) of a C string held as a sequence; NUL past its end
At(str, i) == IF i >= 1 /\ i <= Len(str) THEN str[i] ELSE 0

toupper(c) == IF c >= 97 /\ c <= 122 THEN c - 32 ELSE c

(***************************************************************************)
(* Cells                                                                   *)
(***************************************************************************)
\* a cell holding the plain value v (a FAT entry, a data byte, a zero)
Raw(v) ==
    [name |-> <<v>>, ext |-> <<>>, attr |-> 0, clus |-> 0, size |-> 0, lfn |-> <<>>]

\* the cell seen as a FAT entry or a data byte
Val(c) == c.name[1]

\* the memset of the new directory sector, were it to fill it with deleted
\* slots
ZeroSector_deleted(n) == [i \in 1..n |-> Raw(SLOT_DELETED)]

ZeroSector(n) == [i \in 1..n |-> Raw(0)]

(***************************************************************************)
(* Device access and the sector cache.  A world w is [fs, dev].            *)
(***************************************************************************)
\* the device transfers nothing for a sector it does not have
DevHas(w, sector) == sector \in DOMAIN w.dev

\* rfail: the device fails its reads, and transfers nothing
fat_dev_read(w, sector) ==
    IF DevHas(w, sector) /\ ~w.rfail THEN w.dev[sector] ELSE w.fs.sector_buffer

\* wfail: the device fails its writes, and transfers nothing
fat_dev_write(w, sector, buffer) ==
    IF DevHas(w, sector) /\ ~w.wfail THEN [w EXCEPT !.dev[sector] = buffer] ELSE w

fat_sector_cache_flush(w) ==
    IF w.fs.dirty
    THEN [fat_dev_write(w, w.fs.sector, w.fs.sector_buffer) EXCEPT !.fs.dirty = FALSE]
    ELSE w

\* the cache, flushed, loads the sector; reads counts the device reads of
\* the cache
CacheLoad(w, sector) ==
    [w EXCEPT !.fs.sector = sector, !.fs.sector_buffer = fat_dev_read(w, sector),
              !.reads = @ + 1]

\* fat_sector_cache_read, were it to load the sector whatever the cache holds
fat_sector_cache_read_always(w, sector) ==
    CacheLoad(fat_sector_cache_flush(w), sector)

fat_sector_cache_read(w, sector) ==
    IF sector = w.fs.sector
    THEN w
    ELSE CacheLoad(fat_sector_cache_flush(w), sector)

\* lost: the cache was tagged with another sector while it was dirty
fat_sector_cache_write(w, sector) ==
    [w EXCEPT !.fs.sector = sector, !.fs.dirty = TRUE,
              !.lost = @ \/ (w.fs.dirty /\ w.fs.sector # sector)]

\* store cell c at index off (0-based) of the cached buffer
BufSet(w, off, c) ==
    IF off + 1 \in DOMAIN w.fs.sector_buffer
    THEN [w EXCEPT !.fs.sector_buffer[off + 1] = c]
    ELSE w

BufGet(w, off) ==
    IF off + 1 \in DOMAIN w.fs.sector_buffer
    THEN w.fs.sector_buffer[off + 1]
    ELSE Raw(0)

(***************************************************************************)
(* Cluster to sector                                                       *)
(***************************************************************************)
fat_sector_calc(f, cluster) ==
    IF cluster = 0
    THEN f.first_dir_sector
    ELSE (((cluster + U32 - CLUST_FIRST) % U32) * f.sectors_per_cluster
            + f.first_data_sector) % U32

(***************************************************************************)
(* FAT entries.  FatSector / FatIndex: the sector and the place in it of   *)
(* a cluster's entry; an entry is one cell wide.                           *)
(***************************************************************************)
FatSector(f, cluster) == (f.first_fat_sector + (cluster \div f.bytes_per_sector)) % U32
FatIndex(f, cluster) == cluster % f.bytes_per_sector

\* the entry read from the cached FAT sector, masked: [w, v]
EntryValue(w, cluster_new, mask) ==
    [w |-> w,
     v |-> IF cluster_new >= BitAnd(CLUST_EOFS, mask)
           THEN CLUST_EOFS
           ELSE BitAnd(cluster_new, mask)]

\* the union conv is not initialised, and a FAT16 entry sets two of its
\* four bytes: the other two hold w.junk, whatever the stack held
EntryRead(w, cluster) ==
    EntryValue(w,
               IF w.fs.isFAT32
               THEN Val(BufGet(w, FatIndex(w.fs, cluster)))
               ELSE (Val(BufGet(w, FatIndex(w.fs, cluster))) % U16) + w.junk * U16,
               IF w.fs.isFAT32 THEN FAT32_MASK ELSE FAT16_MASK)

\* returns [w, v]
fat_entry_get(w, cluster) ==
    EntryRead(fat_sector_cache_read(w, FatSector(w.fs, cluster)), cluster)

fat_cluster_last_p(cluster) == cluster >= CLUST_EOFS

fat_cluster_free_p(cluster) == cluster = CLUST_FREE

\* r is what fat_entry_get returned
EntryCheck(r) ==
    IF fat_cluster_free_p(r.v) THEN [w |-> r.w, v |-> CLUST_EOFE] ELSE r

fat_entry_get_check(w, cluster) == EntryCheck(fat_entry_get(w, cluster))

fat_entry_set(w, cluster, cluster_new) ==
    fat_sector_cache_write(
        BufSet(fat_sector_cache_read(w, FatSector(w.fs, cluster)),
               FatIndex(w.fs, cluster), Raw(cluster_new)),
        FatSector(w.fs, cluster))

(***************************************************************************)
(* Bounds of the model                                                     *)
(***************************************************************************)
\* the most steps any loop of the code takes before the model calls it a
\* loop that does not terminate
MaxScan == 24

(***************************************************************************)
(* Allocation                                                              *)
(***************************************************************************)
\* r is what fat_entry_get returned for cluster
RECURSIVE FreeFindLoop(_, _)
FreeFindStep(r, cluster) ==
    IF fat_cluster_free_p(r.v)
    THEN [w |-> r.w, v |-> cluster]
    ELSE FreeFindLoop(r.w, cluster + 1)

FreeFindLoop(w, cluster) ==
    IF cluster < w.fs.num_clusters
    THEN FreeFindStep(fat_entry_get(w, cluster), cluster)
    ELSE [w |-> w, v |-> 0]

fat_cluster_free_find(w, cluster_start) == FreeFindLoop(w, cluster_start)

fat_cluster_chain_append(w, cluster_start, cluster_new) ==
    fat_entry_set(fat_entry_get(w, cluster_start).w, cluster_start, cluster_new)

\* r is what fat_entry_get_check returned for cluster: clear the link
RECURSIVE ChainFreeLoop(_, _, _)
ChainFreeStep(r, cluster, fuel) ==
    ChainFreeLoop(fat_entry_set(r.w, cluster, 0), r.v, fuel - 1)

ChainFreeLoop(w, cluster, fuel) ==
    IF fat_cluster_last_p(cluster) \/ fuel = 0
    THEN w
    ELSE ChainFreeStep(fat_entry_get_check(w, cluster), cluster, fuel)

\* fat_cluster_chain_free, were it to clear the first entry of the chain only
fat_cluster_chain_free_first(w, cluster_start) ==
    IF fat_cluster_last_p(cluster_start)
    THEN w
    ELSE fat_entry_set(fat_entry_get_check(w, cluster_start).w, cluster_start, 0)

fat_cluster_chain_free(w, cluster_start) == ChainFreeLoop(w, cluster_start, MaxScan)

\* the new cluster, marked as the end of a chain, is appended to cluster_next
AllocLink(w, cluster_next, cluster_new) ==
    IF cluster_next # 0
    THEN fat_cluster_chain_append(w, cluster_next, cluster_new)
    ELSE w

\* r is what fat_cluster_free_find returned
RECURSIVE AllocLoop(_, _, _, _)
AllocStep(r, cluster_next, cluster_first, num) ==
    IF r.v = 0
    THEN [w |-> r.w, v |-> 0]
    ELSE AllocLoop(AllocLink(fat_entry_set(r.w, r.v, CLUST_EOFE), cluster_next, r.v),
                   r.v, IF cluster_first = 0 THEN r.v ELSE cluster_first, num - 1)

AllocLoop(w, cluster_next, cluster_first, num) ==
    IF num = 0
    THEN [w |-> w, v |-> cluster_first]
    ELSE AllocStep(fat_cluster_free_find(w, CLUST_FIRST), cluster_next, cluster_first, num)

\* returns [w, v]: v the first of the allocated clusters, or 0
fat_clusters_allocate(w, cluster_start, size) ==
    IF size = 0
    THEN [w |-> w, v |-> 0]
    ELSE AllocLoop(w, cluster_start, 0,
                   (size + w.fs.bytes_per_cluster - 1) \div w.fs.bytes_per_cluster)

(***************************************************************************)
(* Directory entries.  An iterator is [cluster, sector, sectors, offset];  *)
(* a fat_de_t pointer is an offset into the cached buffer (one slot is one *)
(* cell, so sizeof (fat_de_t) is 1).                                       *)
(***************************************************************************)
\* sizeof (fat_de_t), in cells
SizeofDe == 1

NameByte(de, i) == At(de.name, i) % U8

fat_dir_sectors(f, cluster) ==
    IF ~f.isFAT32 /\ cluster = f.root_dir_cluster
    THEN f.root_dir_sectors
    ELSE f.sectors_per_cluster

\* returns [w, it]; the entry is at it.offset
fat_de_first(w, cluster) ==
    LET sector == fat_sector_calc(w.fs, cluster)
    IN [w |-> fat_sector_cache_read(w, sector),
        it |-> [cluster |-> cluster, sector |-> sector,
                sectors |-> fat_dir_sectors(w.fs, cluster) % U16, offset |-> 0]]

fat_de_last_p(de) == NameByte(de, 1) = SLOT_EMPTY

fat_de_free_p(de) == NameByte(de, 1) = SLOT_DELETED

\* a is what fat_clusters_allocate returned: the buffer is cleared and
\* the cache is said to hold the first sector of the new cluster
DeExtendSector(a) ==
    [w |-> fat_sector_cache_write(
               [a.w EXCEPT !.fs.sector_buffer = ZeroSector(Len(a.w.fs.sector_buffer))],
               fat_sector_calc(a.w.fs, a.v)),
     v |-> a.v]

\* the directory has run past its last cluster: add a cluster to it
DeExtend(w, it) == DeExtendSector(fat_clusters_allocate(w, it.cluster, 1))

\* n is [w, v], v the cluster the iterator moves to
DeNextCluster(n, it) ==
    [w |-> fat_sector_cache_read(n.w, fat_sector_calc(n.w.fs, n.v)),
     it |-> [it EXCEPT !.offset = 0, !.cluster = n.v,
                       !.sector = fat_sector_calc(n.w.fs, n.v)]]

\* r is what fat_entry_get_check returned for the iterator's cluster
DeNextChain(r, it) ==
    DeNextCluster(IF fat_cluster_last_p(r.v) THEN DeExtend(r.w, it) ELSE r, it)

\* returns [w, it]; the entry is at it.offset
fat_de_next(w, it) ==
    LET offset == (it.offset + SizeofDe) % U16
        sector == (it.sector + 1) % U32
    IN IF offset >= w.fs.bytes_per_sector
       THEN IF sector >= it.sectors
            THEN DeNextChain(fat_entry_get_check(w, it.cluster), it)
            ELSE [w |-> fat_sector_cache_read(w, sector),
                  it |-> [it EXCEPT !.offset = 0, !.sector = sector]]
       ELSE [w |-> w, it |-> [it EXCEPT !.offset = offset]]

fat_de_attr_long_filename_p(de) == BitAnd(de.attr, ATTR_LONG_FILENAME) = ATTR_LONG_FILENAME

fat_de_attr_volume_p(de) == HasFlag(de.attr, ATTR_VOLUME)

fat_de_attr_dir_p(de) == HasFlag(de.attr, ATTR_DIRECTORY)

(***************************************************************************)
(* Names                                                                   *)
(***************************************************************************)
RECURSIVE WildLoop(_, _, _, _, _, _, _)
WildLoop(P, S, pat, str, s, p, star) ==
    LET starCheck == IF ~star THEN FALSE
                     ELSE WildLoop(P, S, pat, str + 1, str + 1, pat, star)
    IN IF At(S, s) = 0
       THEN At(P, IF At(P, p) = CH_STAR THEN p + 1 ELSE p) = 0
       ELSE IF At(P, p) = CH_QUERY
            THEN IF At(S, s) = CH_DOT THEN starCheck
                 ELSE WildLoop(P, S, pat, str, s + 1, p + 1, star)
       ELSE IF At(P, p) = CH_STAR
            THEN IF At(P, p + 1) = 0 THEN TRUE
                 ELSE WildLoop(P, S, p + 1, s, s, p + 1, TRUE)
       ELSE IF toupper(At(S, s)) # toupper(At(P, p)) THEN starCheck
            ELSE WildLoop(P, S, pat, str, s + 1, p + 1, star)

szWildMatch8(pat, str) == WildLoop(pat, str, 1, 1, 1, 1, FALSE)

\* the bytes of a field up to n of them, stopping at a NUL or a space
RECURSIVE TakeField(_, _, _)
TakeField(bytes, i, n) ==
    IF i > n \/ At(bytes, i) % U8 = 0 \/ At(bytes, i) % U8 = CH_SPACE
    THEN <<>>
    ELSE <<At(bytes, i) % U8>> \o TakeField(bytes, i + 1, n)

dos2str(dos, ext) ==
    TakeField(dos, 1, 8)
      \o (IF At(ext, 1) # 0 /\ At(ext, 1) # CH_SPACE
          THEN <<CH_DOT>> \o TakeField(ext, 1, 3)
          ELSE <<>>)

\* the C string that starts at index 0 of the staging buffer nm
RECURSIVE NameStr(_, _)
NameStr(nm, i) ==
    IF i \in DOMAIN nm /\ nm[i] # 0 /\ i < FAT_MAXLEN
    THEN <<nm[i]>> \o NameStr(nm, i + 1)
    ELSE <<>>

\* the staging buffer with the WIN_CHARS characters of a long-name slot
\* stored from nameoffset on
LfnStore(nm, nameoffset, de) ==
    [i \in DOMAIN nm \cup {nameoffset + n : n \in 0..(WIN_CHARS - 1)} |->
        IF i >= nameoffset /\ i < nameoffset + WIN_CHARS
        THEN At(de.lfn, i - nameoffset + 1)
        ELSE nm[i]]

StrToMap(str) == [i \in 0..(Len(str) - 1) |-> str[i + 1]]

(***************************************************************************)
(* Directory search.  ff is the fat_ff_t of the caller: [parent_dir_cluster,*)
(* cluster, de_sector, de_offset, isdir, name, de]; name is the staging    *)
(* buffer, a map from the indices written to their bytes.                  *)
(***************************************************************************)
EmptyName == [i \in {} |-> 0]

NoFF ==
    [parent_dir_cluster |-> 0, cluster |-> 0, de_sector |-> 0, de_offset |-> 0,
     isdir |-> FALSE, name |-> EmptyName, de |-> Raw(0)]

\* every fragment stored at the start of the staging buffer
LfnOffset_zero(de) == 0

\* the offset in the staging buffer of the characters of long-name slot de
LfnOffset(de) == ((BitAnd(NameByte(de, 1), WIN_CNT) + U8 - 1) * WIN_CHARS) % U8

\* the staging buffer after the long-name slot de
LfnName(de, nm) ==
    LfnStore(IF HasFlag(NameByte(de, 1), WIN_LAST) THEN EmptyName ELSE nm,
             LfnOffset(de), de)

\* longmatch after the long-name slot de
LfnMatch(de, name, nm, longmatch) ==
    IF BitAnd(NameByte(de, 1), WIN_CNT) = 1
    THEN szWildMatch8(name, NameStr(LfnName(de, nm), 0))
    ELSE longmatch

\* the short entry de is the one searched for
ShortMatch(de, name, longmatch) ==
    /\ dos2str(de.name, de.ext) # <<CH_DOT>>
    /\ szWildMatch8(name, dos2str(de.name, de.ext)) \/ longmatch
    /\ ~fat_de_attr_volume_p(de)

\* ff for the short entry de found at the iterator
FoundFF(de, it, ff, longmatch) ==
    [ff EXCEPT !.de_sector = it.sector,
               !.de_offset = it.offset,
               !.de = de,
               !.name = IF longmatch THEN @ ELSE StrToMap(dos2str(de.name, de.ext)),
               !.cluster = de.clus,
               !.isdir = fat_de_attr_dir_p(de)]

\* n is what fat_de_first or fat_de_next returned
RECURSIVE DirSearchLoop(_, _, _, _, _, _)
DirSearchNext(n, name, ff, longmatch, fuel) ==
    DirSearchLoop(n.w, n.it, name, ff, longmatch, fuel)

\* returns [w, found, ff, stuck]
DirSearchLoop(w, it, name, ff, longmatch, fuel) ==
    LET de == BufGet(w, it.offset)
        islong == ~fat_de_free_p(de) /\ fat_de_attr_long_filename_p(de)
    IN IF fat_de_last_p(de)
       THEN [w |-> w, found |-> FALSE, ff |-> ff, stuck |-> FALSE]
       ELSE IF fuel = 0
       THEN [w |-> [w EXCEPT !.spun = TRUE], found |-> FALSE, ff |-> ff,
             stuck |-> TRUE]
       ELSE IF ~fat_de_free_p(de) /\ ~islong /\ ShortMatch(de, name, longmatch)
       THEN [w |-> w, found |-> TRUE, stuck |-> FALSE,
             ff |-> FoundFF(de, it, ff, longmatch)]
       ELSE DirSearchNext(fat_de_next(w, it), name,
                          IF islong THEN [ff EXCEPT !.name = LfnName(de, @)] ELSE ff,
                          IF islong THEN LfnMatch(de, name, ff.name, longmatch)
                          ELSE longmatch,
                          fuel - 1)

fat_dir_search(w, dir_cluster, name, ff) ==
    DirSearchNext(fat_de_first(w, dir_cluster), name, [ff EXCEPT !.name = EmptyName],
                  FALSE, MaxScan)

\* the bytes of pathname from index p up to a '/' or the end
RECURSIVE PathPart(_, _)
PathPart(pathname, p) ==
    IF At(pathname, p) = 0 \/ At(pathname, p) = CH_SLASH
    THEN <<>>
    ELSE <<pathname[p]>> \o PathPart(pathname, p + 1)

\* r is what fat_dir_search returned for the component that ends before p1
RECURSIVE SearchLoop(_, _, _, _)
SearchStep(r, pathname, p1) ==
    IF ~r.found
    THEN [w |-> r.w, found |-> FALSE,
          ff |-> IF At(pathname, p1) = CH_SLASH
                 THEN [r.ff EXCEPT !.parent_dir_cluster = 0]
                 ELSE r.ff]
    ELSE IF At(pathname, p1) = CH_SLASH
    THEN IF ~r.ff.isdir
         THEN [w |-> r.w, found |-> FALSE, ff |-> r.ff]
         ELSE SearchLoop(r.w, pathname, p1 + 1,
                         IF At(pathname, p1 + 1) # 0
                         THEN [r.ff EXCEPT !.parent_dir_cluster = r.ff.cluster]
                         ELSE r.ff)
    ELSE SearchLoop(r.w, pathname, p1, r.ff)

\* returns [w, found, ff]
SearchLoop(w, pathname, p, ff) ==
    LET tmp == PathPart(pathname, p)
    IN IF At(pathname, p) = 0
       THEN [w |-> w, found |-> TRUE, ff |-> ff]
       ELSE IF tmp = <<>>
       THEN [w |-> w, found |-> FALSE, ff |-> ff]
       ELSE SearchStep(fat_dir_search(w, ff.parent_dir_cluster, tmp, ff),
                       pathname, p + Len(tmp))

fat_search(w, pathname, ff) ==
    IF pathname = <<>>
    THEN [w |-> w, found |-> FALSE, ff |-> ff]
    ELSE SearchLoop(w, pathname, 1,
                    [ff EXCEPT !.parent_dir_cluster = w.fs.root_dir_cluster])

(***************************************************************************)
(* File handles: the fields of struct fat_struct, and open for a handle    *)
(* that fat_open has returned and fat_close has not yet released.          *)
(***************************************************************************)
NoFile ==
    [open |-> FALSE, mode |-> 0, file_offset |-> 0, file_size |-> 0,
     start_cluster |-> 0, cluster |-> 0, de_sector |-> 0, de_offset |-> 0]

\* r is what fat_search returned
FindResult(r, f) ==
    IF ~r.found
    THEN [w |-> r.w, found |-> FALSE, fat |-> f, ff |-> r.ff]
    ELSE [w |-> r.w, found |-> TRUE, ff |-> r.ff,
          fat |-> [f EXCEPT !.start_cluster = r.ff.cluster,
                            !.cluster = r.ff.cluster,
                            !.file_offset = 0,
                            !.file_size = r.ff.de.size,
                            !.de_sector = r.ff.de_sector,
                            !.de_offset = r.ff.de_offset]]

\* returns [w, found, fat, ff]
fat_find(w, f, pathname, ff) == FindResult(fat_search(w, pathname, ff), f)

\* the slot at off of the cached sector with its size replaced
SlotSizeSet(w, off, size) ==
    BufSet(w, off, [BufGet(w, off) EXCEPT !.size = size])

\* fat_size_set, were it to read the slot's sector and store nothing
fat_size_set_nothing(w, f, size) == fat_sector_cache_read(w, f.de_sector)

fat_size_set(w, f, size) ==
    fat_sector_cache_write(
        SlotSizeSet(fat_sector_cache_read(w, f.de_sector), f.de_offset, size),
        f.de_sector)

(***************************************************************************)
(* Read, write, seek                                                       *)
(***************************************************************************)
\* the sector of the file offset within the current cluster
DataSector(f, h) ==
    (fat_sector_calc(f, h.cluster)
       + ((h.file_offset % f.bytes_per_cluster) \div f.bytes_per_sector)) % U32

\* the bytes one pass of the loop moves: at most a sector, at most to its end
ChunkBytes(f, h, bytes_left) ==
    LET offset == h.file_offset % f.bytes_per_sector
        nbytes == IF bytes_left < f.bytes_per_sector THEN bytes_left
                  ELSE f.bytes_per_sector
    IN IF nbytes > f.bytes_per_sector - offset
       THEN f.bytes_per_sector - offset
       ELSE nbytes

\* the read has reached the end of a cluster; r is what fat_entry_get_check
\* returned for it
RECURSIVE ReadLoop(_, _, _, _, _)
ReadBoundary(r, h, data, left, fuel) ==
    IF fat_cluster_last_p(r.v)
    THEN [w |-> r.w, fat |-> [h EXCEPT !.cluster = r.v], data |-> data,
          bytes_left |-> left, stuck |-> FALSE]
    ELSE ReadLoop(r.w, [h EXCEPT !.cluster = r.v], data, left, fuel - 1)

\* returns [w, fat, data, bytes_left, stuck]
ReadLoop(w, h, data, bytes_left, fuel) ==
    IF bytes_left = 0
    THEN [w |-> w, fat |-> h, data |-> data, bytes_left |-> 0, stuck |-> FALSE]
    ELSE IF fuel = 0
    THEN [w |-> w, fat |-> h, data |-> data, bytes_left |-> bytes_left, stuck |-> TRUE]
    ELSE
    LET offset == h.file_offset % w.fs.bytes_per_sector
        sector == DataSector(w.fs, h)
        nbytes == IF DevHas(w, sector) /\ ~w.rfail
                  THEN ChunkBytes(w.fs, h, bytes_left) ELSE 0
        got == data \o [i \in 1..nbytes |-> Val(w.dev[sector][offset + i])]
        h1 == [h EXCEPT !.file_offset = (@ + nbytes) % U32]
        left == (bytes_left + U16 - nbytes) % U16
    IN IF h1.file_offset % w.fs.bytes_per_cluster = 0
       THEN ReadBoundary(fat_entry_get_check(w, h.cluster), h1, got, left, fuel)
       ELSE ReadLoop(w, h1, got, left, fuel - 1)

\* r is what the loop returned for a read of len bytes
ReadResult(r, len) ==
    [w |-> r.w, fat |-> r.fat, data |-> r.data, ret |-> len - r.bytes_left,
     stuck |-> r.stuck]

\* returns [w, fat, data, ret, stuck]
fat_read(w, h, len) ==
    LET avail == (h.file_size + U32 - h.file_offset) % U32
        len1 == IF len > avail THEN avail ELSE len
    IN ReadResult(ReadLoop(w, h, <<>>, len1 % U16, MaxScan), len1)

\* the sector with the cells from offset on replaced by the bytes
PutBytes(buffer, offset, bytes) ==
    [i \in DOMAIN buffer |->
        IF i > offset /\ i <= offset + Len(bytes)
        THEN Raw(bytes[i - offset])
        ELSE buffer[i]]

RECURSIVE WriteLoop(_, _, _, _, _)
\* the end of a cluster, were the write to go on after a failed allocation
WriteBoundary_goes_on(a, h, rest, left, fuel) ==
    WriteLoop(a.w, [h EXCEPT !.cluster = a.v], rest, left, fuel - 1)

\* the write has reached the end of a cluster; a is what
\* fat_clusters_allocate returned
WriteBoundary(a, h, rest, left, fuel) ==
    IF a.v = 0
    THEN [w |-> a.w, fat |-> [h EXCEPT !.cluster = 0], bytes_left |-> left]
    ELSE WriteLoop(a.w, [h EXCEPT !.cluster = a.v], rest, left, fuel - 1)

\* nbytes of data written to the sector of the file offset
\* aimed collects the sectors fat_write hands to fat_dev_write
WriteChunk(w, sector, offset, bytes) ==
    IF DevHas(w, sector)
    THEN [fat_dev_write(w, sector, PutBytes(w.dev[sector], offset, bytes))
          EXCEPT !.aimed = @ \cup {sector}]
    ELSE [w EXCEPT !.aimed = @ \cup {sector}]

\* returns [w, fat, data, bytes_left]; data is what is still to be written
WriteLoop(w, h, data, bytes_left, fuel) ==
    IF bytes_left = 0 \/ fuel = 0
    THEN [w |-> w, fat |-> h, bytes_left |-> bytes_left]
    ELSE
    LET nbytes == ChunkBytes(w.fs, h, bytes_left)
        w1 == WriteChunk(w, DataSector(w.fs, h), h.file_offset % w.fs.bytes_per_sector,
                         SubSeq(data, 1, nbytes))
        h1 == [h EXCEPT !.file_offset = (@ + nbytes) % U32]
        rest == SubSeq(data, nbytes + 1, Len(data))
        left == bytes_left - nbytes
    IN IF h1.file_offset % w.fs.bytes_per_cluster = 0
       THEN WriteBoundary(fat_clusters_allocate(w1, h.cluster, 1), h1, rest, left, fuel)
       ELSE WriteLoop(w1, h1, rest, left, fuel - 1)

\* r is what the loop returned for a write of len bytes; h the handle with
\* its new size
WriteResult(r, h, len) ==
    [w |-> fat_sector_cache_flush(fat_size_set(r.w, h, h.file_size)),
     fat |-> h, ret |-> len - r.bytes_left]

WriteDone(r, len) ==
    WriteResult(r, [r.fat EXCEPT !.file_size = (@ + len - r.bytes_left) % U32], len)

\* fat_write, were it not to test the mode of the handle
fat_write_any_mode(w, h, data) ==
    WriteDone(WriteLoop(w, h, data, Len(data) % U16, MaxScan), Len(data))

\* returns [w, fat, ret]
fat_write(w, h, data) ==
    IF ~(HasFlag(h.mode, O_RDWR) \/ HasFlag(h.mode, O_WRONLY))
    THEN [w |-> w, fat |-> h, ret |-> -1]
    ELSE WriteDone(WriteLoop(w, h, data, Len(data) % U16, MaxScan), Len(data))

\* r is what fat_entry_get_check returned for the handle's cluster
RECURSIVE SeekLoop(_, _, _)
SeekStep(r, h, num) ==
    IF ~fat_cluster_last_p(r.v)
    THEN SeekLoop(r.w, [h EXCEPT !.cluster = r.v], num - 1)
    ELSE [w |-> r.w, fat |-> h]

\* returns [w, fat]: the chain followed num links from the start cluster
SeekLoop(w, h, num) ==
    IF num = 0
    THEN [w |-> w, fat |-> h]
    ELSE SeekStep(fat_entry_get_check(w, h.cluster), h, num)

\* r is what the loop returned for the position fpos
SeekResult(r, fpos) == [w |-> r.w, fat |-> r.fat, ret |-> fpos]

\* returns [w, fat, ret]
fat_lseek(w, h, offset, whence) ==
    LET fpos0 == CASE whence = SEEK_SET -> offset
                   [] whence = SEEK_CUR -> h.file_offset + offset
                   [] whence = SEEK_END -> h.file_size + offset
                   [] OTHER -> 0
        fpos1 == IF fpos0 < 0 THEN 0 ELSE fpos0
        fpos == IF fpos1 > h.file_size THEN h.file_size ELSE fpos1
    IN SeekResult(SeekLoop(w, [h EXCEPT !.file_offset = fpos,
                                        !.cluster = h.start_cluster],
                           Min(fpos \div w.fs.bytes_per_cluster, MaxScan)),
                  fpos)

(***************************************************************************)
(* Create                                                                  *)
(***************************************************************************)
\* up to n bytes of filename from index i, upper-cased, stopping at the end
\* of the string (or at a '.' when dots stop it), padded with spaces to n
RECURSIVE SfnField(_, _, _, _)
SfnField(filename, i, n, dotstops) ==
    IF n = 0
    THEN <<>>
    ELSE IF At(filename, i) = 0 \/ (dotstops /\ At(filename, i) = CH_DOT)
    THEN [k \in 1..n |-> CH_SPACE]
    ELSE <<toupper(filename[i])>> \o SfnField(filename, i + 1, n - 1, dotstops)

\* the index of the first '.' of filename from index i on, or of its end
RECURSIVE DotIndex(_, _)
DotIndex(filename, i) ==
    IF At(filename, i) = 0 \/ At(filename, i) = CH_DOT
    THEN i
    ELSE DotIndex(filename, i + 1)

\* the slot de rewritten as the short entry of filename
fat_de_sfn_create(de, filename, size, cluster) ==
    LET dot == DotIndex(filename, 1)
        e == IF At(filename, dot) = CH_DOT THEN dot + 1 ELSE dot
    IN [de EXCEPT !.name = SfnField(filename, 1, 8, TRUE),
                  !.ext = SfnField(filename, e, 3, FALSE),
                  !.attr = ATTR_NORMAL,
                  !.clus = cluster % U32,
                  !.size = size,
                  !.lfn = <<>>]

\* n is what fat_de_first or fat_de_next returned
RECURSIVE DeAddLoop(_, _, _)
DeAddNext(n, fuel) == DeAddLoop(n.w, n.it, fuel)

\* returns [w, it]: the iterator at the first empty slot
DeAddLoop(w, it, fuel) ==
    IF fat_de_last_p(BufGet(w, it.offset))
    THEN [w |-> w, it |-> it]
    ELSE IF fuel = 0
    THEN [w |-> [w EXCEPT !.spun = TRUE], it |-> it]
    ELSE DeAddNext(fat_de_next(w, it), fuel - 1)

\* the short entry of filename stored in the handle's slot of the cached
\* sector, and the sector written
DeAddStore(w, h, filename, cluster_start, size) ==
    [w |-> fat_sector_cache_flush(
               fat_sector_cache_write(
                   BufSet(w, h.de_offset,
                          fat_de_sfn_create(BufGet(w, h.de_offset), filename, size,
                                            cluster_start)),
                   h.de_sector)),
     fat |-> h, ok |-> TRUE]

\* l is [w, it], the iterator where the loop over the directory stopped
DeAddAt(l, h, filename, cluster_start, size) ==
    DeAddStore(IF fat_de_last_p(BufGet(l.w, l.it.offset))
               THEN fat_sector_cache_read(fat_de_next(l.w, l.it).w, l.it.sector)
               ELSE l.w,
               [h EXCEPT !.de_sector = l.it.sector, !.de_offset = l.it.offset],
               filename, cluster_start, size)

\* returns [w, fat, ok]
fat_de_add(w, h, filename, cluster_dir, cluster_start, size) ==
    DeAddAt(DeAddNext(fat_de_first(w, cluster_dir), MaxScan), h, filename,
            cluster_start, size)

\* the part of pathname after its last '/'
RECURSIVE BaseName(_, _, _)
BaseName(pathname, i, start) ==
    IF i > Len(pathname)
    THEN SubSeq(pathname, start, Len(pathname))
    ELSE BaseName(pathname, i + 1, IF pathname[i] = CH_SLASH THEN i + 1 ELSE start)

\* d is what fat_de_add returned
CreateDone(d, cluster) ==
    [w |-> fat_sector_cache_flush(d.w), fat |-> [d.fat EXCEPT !.cluster = cluster],
     ok |-> TRUE]

\* a is what fat_clusters_allocate returned for the file's first cluster
CreateEntry(a, h, filename, cluster_dir, size) ==
    IF a.v = 0
    THEN [w |-> a.w, fat |-> [h EXCEPT !.start_cluster = 0], ok |-> FALSE]
    ELSE CreateDone(fat_de_add(a.w, [h EXCEPT !.start_cluster = a.v], filename,
                               cluster_dir, a.v, size),
                    a.v)

\* returns [w, fat, ok]
fat_create(w, h, pathname, size, ff) ==
    IF ff.parent_dir_cluster = 0
    THEN [w |-> w, fat |-> h, ok |-> FALSE]
    ELSE CreateEntry(fat_clusters_allocate(w, 0, IF size = 0 THEN 1 ELSE size),
                     [h EXCEPT !.file_size = size, !.file_offset = 0],
                     BaseName(pathname, 1, 1), ff.parent_dir_cluster, size)

(***************************************************************************)
(* Open, unlink, statistics                                                *)
(***************************************************************************)
fat_fs_check_p(f) == f.bytes_per_cluster # 0 /\ f.bytes_per_sector # 0

\* h is the handle of the file found or created
OpenHandle(h, mode) ==
    [h EXCEPT !.open = TRUE,
              !.file_offset = IF HasFlag(mode, O_APPEND) THEN h.file_size ELSE 0]

\* r is what fat_find returned for a file that exists
OpenExisting(r, mode) ==
    IF HasFlag(mode, O_TRUNC) /\ (HasFlag(mode, O_RDWR) \/ HasFlag(mode, O_WRONLY))
    THEN [w |-> fat_size_set(r.w, r.fat, 0), err |-> "OK", created |-> FALSE,
          fat |-> OpenHandle([r.fat EXCEPT !.file_size = 0], mode)]
    ELSE [w |-> r.w, err |-> "OK", created |-> FALSE, fat |-> OpenHandle(r.fat, mode)]

\* c is what fat_create returned
OpenCreated(c, mode) ==
    IF c.ok
    THEN [w |-> c.w, err |-> "OK", created |-> TRUE, fat |-> OpenHandle(c.fat, mode)]
    ELSE [w |-> c.w, fat |-> NoFile, err |-> "NOTCREATED", created |-> FALSE]

\* r is what fat_find returned
OpenSearched(r, pathname, mode) ==
    IF r.found
    THEN IF r.ff.isdir
         THEN [w |-> r.w, fat |-> NoFile, err |-> "EISDIR", created |-> FALSE]
         ELSE OpenExisting(r, mode)
    ELSE IF HasFlag(mode, O_CREAT)
    THEN OpenCreated(fat_create(r.w, r.fat, pathname, 0, r.ff), mode)
    ELSE [w |-> r.w, fat |-> NoFile, err |-> "NOTFOUND", created |-> FALSE]

\* returns [w, fat, err, created]: fat.open tells whether a handle was returned,
\* created whether fat_create made the file
fat_open(w, pathname, mode) ==
    IF ~fat_fs_check_p(w.fs)
    THEN [w |-> w, fat |-> NoFile, err |-> "EFAULT", created |-> FALSE]
    ELSE IF pathname = <<>>
    THEN [w |-> w, fat |-> NoFile, err |-> "NULL", created |-> FALSE]
    ELSE OpenSearched(fat_find(w, [NoFile EXCEPT !.mode = mode], pathname, NoFF),
                      pathname, mode)

\* the first name byte of the slot at off of the cached sector set to 0xE5
SlotDelete(w, off) ==
    BufSet(w, off, [BufGet(w, off) EXCEPT !.name[1] = SLOT_DELETED])

\* n is what fat_de_next returned
RECURSIVE UnlinkMarkLoop(_, _, _)
UnlinkMarkNext(n, fuel) == UnlinkMarkLoop(n.w, n.it, fuel)

\* the long-name slots from the iterator on marked deleted;
\* returns [w, it] at the first slot that is not one
UnlinkMarkLoop(w, it, fuel) ==
    IF ~fat_de_attr_long_filename_p(BufGet(w, it.offset))
    THEN [w |-> w, it |-> it]
    ELSE IF fuel = 0
    THEN [w |-> [w EXCEPT !.spun = TRUE], it |-> it]
    ELSE UnlinkMarkNext(fat_de_next(SlotDelete(w, it.offset), it), fuel - 1)

\* m is [w, it], the iterator after the long-name slots
UnlinkMarked(m) ==
    [w |-> fat_sector_cache_flush(SlotDelete(m.w, m.it.offset)), ret |-> 0,
     err |-> "OK"]

\* n is what fat_de_first or fat_de_next returned
RECURSIVE UnlinkLoop(_, _, _, _)
UnlinkNext(n, ff, fuel) == UnlinkLoop(n.w, n.it, ff, fuel)

\* returns [w, ret, err]
UnlinkLoop(w, it, ff, fuel) ==
    IF fat_de_last_p(BufGet(w, it.offset))
    THEN [w |-> w, ret |-> 0, err |-> "LOST"]
    ELSE IF fuel = 0
    THEN [w |-> [w EXCEPT !.spun = TRUE], ret |-> 0, err |-> "LOST"]
    ELSE IF it.offset = ff.de_offset /\ it.sector = ff.de_sector
    THEN UnlinkMarked(UnlinkMarkLoop(w, it, MaxScan))
    ELSE UnlinkNext(fat_de_next(w, it), ff, fuel - 1)

\* r is what fat_search returned
UnlinkFound(r) ==
    IF ~r.found
    THEN [w |-> r.w, ret |-> -1, err |-> "ENOENT"]
    ELSE IF r.ff.isdir
    THEN [w |-> r.w, ret |-> -1, err |-> "EISDIR"]
    ELSE UnlinkNext(fat_de_first(fat_cluster_chain_free(r.w, r.ff.cluster),
                                 r.ff.parent_dir_cluster),
                    r.ff, MaxScan)

\* returns [w, ret, err]
fat_unlink(w, pathname) == UnlinkFound(fat_search(w, pathname, NoFF))

\* r is what fat_entry_get returned for cluster
RECURSIVE StatsLoop(_, _, _)
StatsStep(r, cluster, alloc) ==
    StatsLoop(r.w, cluster + 1, IF fat_cluster_free_p(r.v) THEN alloc ELSE alloc + 1)

\* returns [w, alloc]: the clusters from cluster on that are not free
StatsLoop(w, cluster, alloc) ==
    IF cluster < w.fs.num_clusters
    THEN StatsStep(fat_entry_get(w, cluster), cluster, alloc)
    ELSE [w |-> w, alloc |-> alloc]

\* r is what the loop returned
StatsResult(r, total) ==
    [w |-> r.w, total |-> total, free |-> total - r.alloc, alloc |-> r.alloc]

\* returns [w, total, free, alloc]
fat_stats(w) == StatsResult(StatsLoop(w, CLUST_FIRST, 0), w.fs.num_clusters)

(***************************************************************************)
(* Mount.  mbr is the first partition record and the first byte of sector  *)
(* 0, bpb the BIOS parameter block of the partition's boot sector.         *)
(***************************************************************************)
PART_TYPE_FAT16 == 6
PART_TYPE_FAT32 == 11
PART_TYPE_FAT32LBA == 12
PART_TYPE_FAT16LBA == 14

\* a / b as the build computes it: a division by zero is undefined, and
\* div0 is what it does, trap (-1) or yield the quotient div0
Div(a, b, div0) == IF b = 0 THEN div0 ELSE a \div b

\* returns [ok, fault, fs]; fault: a division by zero has trapped
fat_init(d, mbr, bpb, div0) ==
    LET first_sector == mbr.prStartLBA
        isFAT32 == mbr.prPartType \in {PART_TYPE_FAT32, PART_TYPE_FAT32LBA}
        num_fat_sectors == IF bpb.bpbFATsecs # 0 THEN bpb.bpbFATsecs
                           ELSE bpb.bpbBigFATsecs
        root_dir_sectors ==
            Div(bpb.bpbRootDirEnts * SizeofDe + (bpb.bpbBytesPerSec - 1),
                bpb.bpbBytesPerSec, div0) % U16
        first_data_sector ==
            (bpb.bpbResSectors + bpb.bpbFATs * num_fat_sectors + root_dir_sectors) % U32
        tot_sectors == IF bpb.bpbSectors # 0 THEN bpb.bpbSectors ELSE bpb.bpbHugeSectors
        data_sectors == (tot_sectors + U32 - first_data_sector) % U32
        none == [isFAT32 |-> FALSE, sectors_per_cluster |-> 0, first_data_sector |-> 0,
                 first_fat_sector |-> 0, first_dir_sector |-> 0, root_dir_cluster |-> 0,
                 root_dir_sectors |-> 0, num_clusters |-> 0, num_fat_sectors |-> 0,
                 bytes_per_sector |-> 0, bytes_per_cluster |-> 0,
                 sector |-> U32 - 1, sector_buffer |-> <<>>, dirty |-> FALSE]
    IN IF mbr.jump \in {233, 235}
       THEN [ok |-> FALSE, fault |-> FALSE, fs |-> none]
       ELSE IF mbr.prPartType \notin {PART_TYPE_FAT16, PART_TYPE_FAT32, PART_TYPE_FAT32LBA}
       THEN [ok |-> FALSE, fault |-> FALSE, fs |-> none]
       ELSE IF (bpb.bpbBytesPerSec = 0 \/ bpb.bpbSecPerClust = 0) /\ div0 < 0
       THEN [ok |-> FALSE, fault |-> TRUE, fs |-> none]
       ELSE [ok |-> TRUE, fault |-> FALSE,
             fs |-> [isFAT32 |-> isFAT32,
                     sectors_per_cluster |-> bpb.bpbSecPerClust,
                     first_data_sector |-> (first_data_sector + first_sector) % U32,
                     first_fat_sector |-> (bpb.bpbResSectors + first_sector) % U32,
                     first_dir_sector |->
                         (bpb.bpbResSectors + bpb.bpbFATs * bpb.bpbFATsecs
                            + first_sector) % U32,
                     root_dir_cluster |-> IF isFAT32 THEN bpb.bpbRootClust ELSE 0,
                     root_dir_sectors |-> root_dir_sectors,
                     num_clusters |-> Div(data_sectors, bpb.bpbSecPerClust, div0),
                     num_fat_sectors |-> num_fat_sectors,
                     bytes_per_sector |-> bpb.bpbBytesPerSec,
                     bytes_per_cluster |->
                         (bpb.bpbSecPerClust * bpb.bpbBytesPerSec) % U16,
                     sector |-> first_sector,
                     sector_buffer |-> d[first_sector],
                     dirty |-> FALSE]]

(***************************************************************************)
(* The volume under test: a FAT32 partition behind an MBR                  *)
(***************************************************************************)
BytesPerSec == 2
SecPerClust == 2
NumClusters == 8
\* the calls of one run
MaxOps == 4

BytesPerClust == SecPerClust * BytesPerSec
PartStart == 1
ResSectors == 1
FatEntries == NumClusters + CLUST_FIRST
FatSecs == (FatEntries + BytesPerSec - 1) \div BytesPerSec
TotSectors == ResSectors + FatSecs + NumClusters * SecPerClust
Sectors == 0..(PartStart + TotSectors - 1)

Mbr == [jump |-> 0, prPartType |-> PART_TYPE_FAT32, prStartLBA |-> PartStart]

Bpb ==
    [bpbBytesPerSec |-> BytesPerSec, bpbSecPerClust |-> SecPerClust,
     bpbResSectors |-> ResSectors, bpbFATs |-> 1, bpbRootDirEnts |-> 0,
     bpbSectors |-> TotSectors, bpbFATsecs |-> 0, bpbHugeSectors |-> 0,
     bpbBigFATsecs |-> FatSecs, bpbRootClust |-> CLUST_FIRST]

Str(bytes, n) == [i \in 1..n |-> IF i <= Len(bytes) THEN bytes[i] ELSE CH_SPACE]

\* a short entry as another system writes it
HostEntry(name, first, attr, cluster, size) ==
    [name |-> [Str(name, 8) EXCEPT ![1] = first], ext |-> Str(<<>>, 3), attr |-> attr,
     clus |-> cluster, size |-> size, lfn |-> <<>>]

\* the bytes of the file the volume holds at the start
InitSize == BytesPerClust + 1
InitBytes == [i \in 1..InitSize |-> 10 + i]

\* the volume with k deleted entries in its root directory, followed when
\* withFile by the file A of two clusters, clusters 3 and 4, and with the
\* last bad clusters marked bad by the formatter
MkDev(k, withFile, bad) ==
    LET first_fat == PartStart + ResSectors
        first_data == first_fat + FatSecs
        root == first_data
        fatval(c) == IF c = 0 THEN FAT32_MASK - 7
                     ELSE IF c = 1 \/ c = 2 THEN FAT32_MASK
                     ELSE IF withFile /\ c = 3 THEN 4
                     ELSE IF withFile /\ c = 4 THEN FAT32_MASK
                     ELSE IF c >= NumClusters - bad /\ c < NumClusters
                     THEN BitAnd(CLUST_BAD, FAT32_MASK)
                     ELSE 0
        slot(i) == IF i <= k THEN HostEntry(<<79, 76, 68>>, SLOT_DELETED, 32, 0, 0)
                   ELSE IF withFile /\ i = k + 1
                   THEN HostEntry(<<65>>, 65, 32, 3, InitSize)
                   ELSE Raw(0)
        byte(sec, i) == LET n == (sec - (first_data + SecPerClust)) * BytesPerSec + i
                        IN IF withFile /\ n >= 1 /\ n <= InitSize THEN InitBytes[n] ELSE 0
    IN [sec \in Sectors |->
          [i \in 1..BytesPerSec |->
             IF sec >= first_fat /\ sec < first_data
             THEN Raw(fatval((sec - first_fat) * BytesPerSec + i - 1))
             ELSE IF sec = root THEN slot(i)
             ELSE IF sec > root THEN Raw(byte(sec, i))
             ELSE Raw(0)]]

BadClusters == 2

InitVolumes ==
    {<<k, f, b>> \in (0..BytesPerSec) \X BOOLEAN \X {0, BadClusters} : f => k < BytesPerSec}

(***************************************************************************)
(* The calls                                                               *)
(***************************************************************************)
Paths == {<<97>>, <<CH_SLASH, 97>>, <<98>>}

Modes == {O_RDONLY, O_RDWR, O_WRONLY + O_APPEND, O_WRONLY + O_TRUNC, O_CREAT + O_RDWR}

WriteLens == {1, BytesPerClust, BytesPerClust + 1}

ReadLens == {1, BytesPerClust + 1, 2 * BytesPerClust + 2}

Seeks == {<<0, SEEK_SET>>, <<1, SEEK_SET>>, <<BytesPerClust, SEEK_SET>>,
          <<0, SEEK_END>>, <<-1, SEEK_END>>, <<1, SEEK_CUR>>}

\* the bytes the n-th call writes
WriteData(n, len) == [j \in 1..len |-> 1 + ((3 * n + j) % 9)]

W ==
    [fs |-> fs, dev |-> dev, lost |-> FALSE, reads |-> 0, spun |-> FALSE,
     wfail |-> FALSE, junk |-> 0, rfail |-> FALSE, aimed |-> {}]

\* o is what fat_open returned, r what fat_read returned on its handle
ReadBackResult(o, r) ==
    IF o.fat.open
    THEN [ok |-> TRUE, size |-> o.fat.file_size, data |-> r.data, ret |-> r.ret]
    ELSE [ok |-> FALSE, size |-> 0, data |-> <<>>, ret |-> 0]

ReadWhole(o) == ReadBackResult(o, fat_read(o.w, o.fat, o.fat.file_size))

\* what a fresh handle on path reads: [ok, size, data, ret]
ReadBack(w, path) == ReadWhole(fat_open(w, path, O_RDONLY))

ReadSome(o, n) == ReadBackResult(o, fat_read(o.w, o.fat, n))

\* what a fresh handle on path returns for a read of n bytes: [ok, size, data, ret]
ReadN(w, path, n) == ReadSome(fat_open(w, path, O_RDONLY), n)

\* the device as a program that starts afresh sees it
Mounted(d) ==
    [fs |-> fat_init(d, Mbr, Bpb, -1).fs, dev |-> d, lost |-> FALSE, reads |-> 0,
     spun |-> FALSE, wfail |-> FALSE, junk |-> 0, rfail |-> FALSE, aimed |-> {}]

(***************************************************************************)
(* Views of a world, for stating properties.  They evaluate the code's own *)
(* operators and discard the world these return, so they see what the code *)
(* sees: the device overlaid with the cached sector.                       *)
(***************************************************************************)
\* the FAT entry of cluster c as fat_entry_get returns it
FatAt(w, c) == fat_entry_get(w, c).v

\* the clusters of the chain that starts at cluster c: each one a cluster
\* number of the FAT whose entry is not free, up to the end-of-chain mark
RECURSIVE ChainFrom(_, _, _)
ChainFrom(w, c, fuel) ==
    IF fuel = 0 \/ c < CLUST_FIRST \/ c >= FatEntries \/ FatAt(w, c) = CLUST_FREE
    THEN <<>>
    ELSE <<c>> \o ChainFrom(w, FatAt(w, c), fuel - 1)

Chain(w, c) == ChainFrom(w, c, MaxScan)

\* the chain from c reaches an end-of-chain mark through entries in use
RECURSIVE GoodChainFrom(_, _, _)
GoodChainFrom(w, c, fuel) ==
    /\ fuel > 0
    /\ c >= CLUST_FIRST
    /\ c < FatEntries
    /\ FatAt(w, c) # CLUST_FREE
    /\ \/ fat_cluster_last_p(FatAt(w, c))
       \/ GoodChainFrom(w, FatAt(w, c), fuel - 1)

GoodChain(w, c) == GoodChainFrom(w, c, MaxScan)

\* the path without the '/' it may begin with
RelPath(path) == IF At(path, 1) = CH_SLASH THEN SubSeq(path, 2, Len(path)) ELSE path

\* r is what fat_search returned
LookupResult(r) ==
    [found |-> r.found, isdir |-> r.found /\ r.ff.isdir,
     cluster |-> IF r.found THEN r.ff.cluster ELSE 0,
     de_sector |-> IF r.found THEN r.ff.de_sector ELSE 0,
     de_offset |-> IF r.found THEN r.ff.de_offset ELSE 0,
     size |-> IF r.found THEN r.ff.de.size ELSE 0]

\* the entry a search of the root directory finds for the path's name:
\* [found, isdir, cluster, de_sector, de_offset, size]
Lookup(w, path) == LookupResult(fat_search(w, RelPath(path), NoFF))

NoLook ==
    [found |-> FALSE, isdir |-> FALSE, cluster |-> 0, de_sector |-> 0, de_offset |-> 0,
     size |-> 0]

\* the size in the directory slot of handle h, as the code reads it
SlotSize(w, h) == BufGet(fat_sector_cache_read(w, h.de_sector), h.de_offset).size

\* the bytes of handle h's file that its chain holds
FileBytes(w, h) ==
    LET chain == Chain(w, h.start_cluster)
        n == Min(h.file_size, Len(chain) * w.fs.bytes_per_cluster)
        sector(i) == fat_sector_calc(w.fs, chain[(i \div w.fs.bytes_per_cluster) + 1])
                       + ((i % w.fs.bytes_per_cluster) \div w.fs.bytes_per_sector)
    IN [i \in 1..n |-> Val(w.dev[sector(i - 1)][((i - 1) % w.fs.bytes_per_sector) + 1])]

\* the cached sector holds what the device holds
CacheCoherent(w) ==
    /\ ~w.fs.dirty
    /\ DevHas(w, w.fs.sector) => w.fs.sector_buffer = w.dev[w.fs.sector]

(***************************************************************************)
(* last: the call just made, its arguments and results, and what the world *)
(* before it held: pre, the entry of the path; chain, that entry's chain;  *)
(* free0, the free count of fat_stats; lost, whether the call tagged the   *)
(* cache with another sector while it was dirty; spun, whether a scan of a *)
(* directory in the call made MaxScan steps without reaching its end; and  *)
(* wfail, whether the device failed its writes during the call.            *)
(* hist: what the run has done with the handle: the path it was opened on, *)
(* the mode, whether the open created the file, the file's bytes and chain *)
(* at the open, the bytes the writes took since, and whether only writes   *)
(* were called on it.                                                      *)
(***************************************************************************)
NoLast ==
    [op |-> "init", path |-> <<>>, mode |-> 0, arg |-> 0, err |-> "OK", ret |-> 0,
     data |-> <<>>, pre |-> NoLook, chain |-> <<>>, free0 |-> 0, lost |-> FALSE,
     spun |-> FALSE, wfail |-> FALSE, aimed |-> {}]

NoHist ==
    [path |-> <<>>, mode |-> 0, created |-> FALSE, old |-> <<>>, chain |-> <<>>,
     bytes |-> <<>>, pure |-> TRUE]

Init ==
    \E v \in InitVolumes :
        /\ dev = MkDev(v[1], v[2], v[3])
        /\ fs = fat_init(dev, Mbr, Bpb, -1).fs
        /\ vol = [mbr |-> Mbr, bpb |-> Bpb]
        /\ fat = NoFile
        /\ last = NoLast
        /\ hist = NoHist
        /\ nops = 0
        /\ lb = NoLine
        /\ sd = NoCard

Step(w, h, l, g) ==
    /\ nops < MaxOps
    /\ nops' = nops + 1
    /\ fs' = w.fs
    /\ dev' = w.dev
    /\ vol' = vol
    /\ fat' = h
    /\ last' = [l EXCEPT !.lost = w.lost, !.spun = w.spun, !.wfail = w.wfail,
                        !.aimed = w.aimed]
    /\ hist' = g
    /\ lb' = lb
    /\ sd' = sd

\* r is what fat_open returned, pre the entry of the path before the call
Opened(r, pre, path, mode) ==
    Step(r.w, r.fat,
         [NoLast EXCEPT !.op = "open", !.path = path, !.mode = mode, !.err = r.err,
                        !.pre = pre, !.chain = Chain(W, pre.cluster)],
         IF r.fat.open
         THEN [NoHist EXCEPT !.path = path, !.mode = mode, !.created = r.created,
                             !.old = ReadBack(W, path).data,
                             !.chain = Chain(W, pre.cluster)]
         ELSE NoHist)

Open(path, mode) ==
    /\ ~fat.open
    /\ Opened(fat_open(W, path, mode), Lookup(W, path), path, mode)

\* r is what fat_write returned for data
Written(r, data) ==
    Step(r.w, r.fat,
         [NoLast EXCEPT !.op = "write", !.arg = Len(data), !.ret = r.ret, !.data = data],
         [hist EXCEPT !.bytes = @ \o SubSeq(data, 1, r.ret)])

Write(len) ==
    /\ fat.open
    /\ Written(fat_write(W, fat, WriteData(nops, len)), WriteData(nops, len))

\* r is what fat_read returned for len
WasRead(r, len) ==
    Step(r.w, r.fat,
         [NoLast EXCEPT !.op = "read", !.arg = len, !.ret = r.ret, !.data = r.data,
                        !.err = IF r.stuck THEN "STUCK" ELSE "OK"],
         [hist EXCEPT !.pure = FALSE])

Read(len) ==
    /\ fat.open
    /\ WasRead(fat_read(W, fat, len), len)

\* r is what fat_lseek returned
Sought(r, offset, whence) ==
    Step(r.w, r.fat,
         [NoLast EXCEPT !.op = "lseek", !.arg = offset, !.mode = whence, !.ret = r.ret],
         [hist EXCEPT !.pure = FALSE])

Lseek(offset, whence) ==
    /\ fat.open
    /\ Sought(fat_lseek(W, fat, offset, whence), offset, whence)

Close ==
    /\ fat.open
    /\ Step(W, NoFile, [NoLast EXCEPT !.op = "close"], hist)

\* r is what fat_unlink returned, pre the entry of the path before the call
Unlinked(r, pre, path) ==
    Step(r.w, fat,
         [NoLast EXCEPT !.op = "unlink", !.path = path, !.ret = r.ret, !.err = r.err,
                        !.pre = pre, !.chain = Chain(W, pre.cluster),
                        !.free0 = fat_stats(W).free],
         NoHist)

Unlink(path) ==
    /\ ~fat.open
    /\ Unlinked(fat_unlink(W, path), Lookup(W, path), path)

\* r is what fat_stats returned
Counted(r) ==
    Step(r.w, fat, [NoLast EXCEPT !.op = "stats", !.ret = r.free],
         IF fat.open THEN hist ELSE NoHist)

Stats == Counted(fat_stats(W))

\* the program starts again on the same device and mounts it
Remount ==
    Step(Mounted(dev), NoFile, [NoLast EXCEPT !.op = "mount"], NoHist)

Next ==
    \/ \E path \in Paths, mode \in Modes : Open(path, mode)
    \/ \E len \in WriteLens : Write(len)
    \/ \E len \in ReadLens : Read(len)
    \/ \E s \in Seeks : Lseek(s[1], s[2])
    \/ Close
    \/ \E path \in Paths : Unlink(path)
    \/ Stats
    \/ Remount

Spec == Init /\ [][Next]_vars

(***************************************************************************)
(* Mount.  The program starts on a device whose partition record and BIOS *)
(* parameter block are any of Volumes, calls fat_init once, and then opens *)
(* and closes files on the volume fat_init returned.                       *)
(***************************************************************************)
PartTypes ==
    {0, PART_TYPE_FAT16, 7, PART_TYPE_FAT32, PART_TYPE_FAT32LBA, PART_TYPE_FAT16LBA}

\* what a division by zero does: trap, or yield 0 or 1
DivOutcomes == {-1, 0, 1}

\* the parameter block of the volume as a FAT16 formatter writes it: the
\* root directory is the region after the FAT, of one cluster's slots
Bpb16 ==
    [Bpb EXCEPT !.bpbFATsecs = FatSecs, !.bpbBigFATsecs = 0, !.bpbRootClust = 0,
                !.bpbRootDirEnts = BytesPerClust \div SizeofDe]

Volumes ==
    {[mbr |-> [Mbr EXCEPT !.jump = j, !.prPartType = t],
      bpb |-> [IF t \in {PART_TYPE_FAT32, PART_TYPE_FAT32LBA} THEN Bpb ELSE Bpb16
                 EXCEPT !.bpbBytesPerSec = bps, !.bpbSecPerClust = spc]] :
        j \in {0, 235}, t \in PartTypes, bps \in {0, BytesPerSec},
        spc \in {0, SecPerClust}}

MountInit ==
    \E v \in InitVolumes :
        /\ dev = MkDev(v[1], v[2], v[3])
        /\ vol \in Volumes
        /\ fs = fat_init(dev, [Mbr EXCEPT !.jump = 235], Bpb, -1).fs
        /\ fat = NoFile
        /\ last = [NoLast EXCEPT !.op = "boot"]
        /\ hist = NoHist
        /\ nops = 0
        /\ lb = NoLine
        /\ sd = NoCard

\* r is what fat_init returned
Booted(r) ==
    Step([fs |-> r.fs, dev |-> dev, lost |-> FALSE, reads |-> 0, spun |-> FALSE,
          wfail |-> FALSE, junk |-> 0, rfail |-> FALSE, aimed |-> {}],
         NoFile,
         [NoLast EXCEPT !.op = "mount",
                        !.err = IF r.fault THEN "FAULT"
                                ELSE IF r.ok THEN "OK" ELSE "NULL"],
         NoHist)

Mount ==
    /\ last.op = "boot"
    /\ \E div0 \in DivOutcomes : Booted(fat_init(dev, vol.mbr, vol.bpb, div0))

\* the bytes a FAT16 read of a FAT entry leaves unset: zero, or not
Junk == {0, 1}

\* an open during which the unset bytes of fat_entry_get hold junk
OpenAt(junk, path, mode) ==
    /\ ~fat.open
    /\ Opened(fat_open([W EXCEPT !.junk = junk], path, mode), Lookup(W, path), path, mode)

\* fat_init has returned a volume, and one that fat_open accepts
Ready == last.op # "boot" /\ fs.sector_buffer # <<>> /\ fat_fs_check_p(fs)

MountNext ==
    \/ Mount
    \/ Ready /\ \E junk \in Junk, path \in Paths, mode \in Modes : OpenAt(junk, path, mode)
    \/ Ready /\ Close

MountSpec == MountInit /\ [][MountNext]_vars

(***************************************************************************)
(* A device that fails.  The calls are those of Spec, and a write may be   *)
(* made while the device fails its writes, and a read while it fails its   *)
(* reads.                                                                  *)
(***************************************************************************)
WriteFault(len) ==
    /\ fat.open
    /\ Written(fat_write([W EXCEPT !.wfail = TRUE], fat, WriteData(nops, len)),
               WriteData(nops, len))

ReadFault(len) ==
    /\ fat.open
    /\ WasRead(fat_read([W EXCEPT !.rfail = TRUE], fat, len), len)

FaultNext ==
    \/ Next
    \/ \E len \in WriteLens : WriteFault(len)
    \/ \E len \in ReadLens : ReadFault(len)

FaultSpec == Init /\ [][FaultNext]_vars

(***************************************************************************)
(* Long names.  The volume has sectors of LfnSecSize directory slots, and  *)
(* its root directory holds k deleted slots and then one file: the slots   *)
(* of its long name, of one or two fragments, and its short entry          *)
(* ABCDEF~1, with the cluster 3 and LfnFileSize bytes.  Another system     *)
(* writes the fragments with the last one first; the volume may also hold  *)
(* them with the first one first.                                          *)
(***************************************************************************)
LfnSecSize == 4
LfnFileSize == 3

\* the long name of n characters: a, b, c, ...
LongName(n) == [i \in 1..n |-> 96 + i]

LfnBpb ==
    [Bpb EXCEPT !.bpbBytesPerSec = LfnSecSize,
                !.bpbBigFATsecs = (FatEntries + LfnSecSize - 1) \div LfnSecSize,
                !.bpbSectors = ResSectors
                                 + ((FatEntries + LfnSecSize - 1) \div LfnSecSize)
                                 + NumClusters * SecPerClust]

\* the long-name slot seq of count for the name: weCnt, the attribute of a
\* long name, and the WIN_CHARS characters of the fragment, the name being
\* followed by a NUL and then by 0xFF
LfnSlot(name, seq, count) ==
    [name |-> <<seq + (IF seq = count THEN WIN_LAST ELSE 0)>>, ext |-> <<>>,
     attr |-> ATTR_LONG_FILENAME, clus |-> 0, size |-> 0,
     lfn |-> [n \in 1..WIN_CHARS |->
                LET i == (seq - 1) * WIN_CHARS + n
                IN IF i <= Len(name) THEN name[i]
                   ELSE IF i = Len(name) + 1 THEN 0 ELSE 255]]

MkLfnDev(k, name, lastFirst) ==
    LET count == (Len(name) + WIN_CHARS - 1) \div WIN_CHARS
        first_fat == PartStart + LfnBpb.bpbResSectors
        first_data == first_fat + LfnBpb.bpbBigFATsecs
        fatval(c) == IF c = 0 THEN FAT32_MASK - 7
                     ELSE IF c \in {1, 2, 3} THEN FAT32_MASK
                     ELSE 0
        slot(i) == IF i <= k THEN HostEntry(<<79, 76, 68>>, SLOT_DELETED, 32, 0, 0)
                   ELSE IF i <= k + count
                   THEN LfnSlot(name, IF lastFirst THEN count + 1 - (i - k) ELSE i - k,
                                count)
                   ELSE IF i = k + count + 1
                   THEN HostEntry(<<65, 66, 67, 68, 69, 70, 126, 49>>, 65, 32, 3,
                                  LfnFileSize)
                   ELSE Raw(0)
    IN [sec \in 0..(PartStart + LfnBpb.bpbSectors - 1) |->
          [i \in 1..LfnSecSize |->
             IF sec >= first_fat /\ sec < first_data
             THEN Raw(fatval((sec - first_fat) * LfnSecSize + i - 1))
             ELSE IF sec = first_data THEN slot(i)
             ELSE IF sec = first_data + SecPerClust /\ i <= LfnFileSize
             THEN Raw(10 + i)
             ELSE Raw(0)]]

LfnPaths == {LongName(9), LongName(WIN_CHARS + 1), <<98>>}

LfnInit ==
    \E k \in 0..1, name \in {LongName(9), LongName(WIN_CHARS + 1)}, lastFirst \in BOOLEAN :
        /\ dev = MkLfnDev(k, name, lastFirst)
        /\ fs = fat_init(dev, Mbr, LfnBpb, -1).fs
        /\ vol = [mbr |-> Mbr, bpb |-> LfnBpb]
        /\ fat = NoFile
        /\ last = NoLast
        /\ hist = NoHist
        /\ nops = 0
        /\ lb = NoLine
        /\ sd = NoCard

LfnNext ==
    \/ \E path \in LfnPaths, mode \in Modes : Open(path, mode)
    \/ \E len \in ReadLens : Read(len)
    \/ Close
    \/ \E path \in LfnPaths : Unlink(path)

LfnSpec == LfnInit /\ [][LfnNext]_vars

(***************************************************************************)
(* FAT entries as another system may have stored them.  The volume is the  *)
(* one with the file A, mounted as FAT32 or as FAT16, and the entry of     *)
(* cluster 3 holds any of RawEntries: the values around the end-of-chain   *)
(* marks, and for FAT32 values with a bit set above the 28 bits of the     *)
(* mask.  The program reads FAT entries.                                   *)
(***************************************************************************)
RawEntries(isFAT32) ==
    IF isFAT32
    THEN {0, 4, FAT32_MASK - 8, FAT32_MASK - 7, FAT32_MASK,
          FAT32_MASK + 1, FAT32_MASK + 1 + 4, U32 - 1}
    ELSE {0, 4, FAT16_MASK - 8, FAT16_MASK - 7, FAT16_MASK}

EntryInit ==
    \E isFAT32 \in BOOLEAN :
       \E raw \in RawEntries(isFAT32) :
          /\ dev = [MkDev(0, TRUE, 0) EXCEPT
                      ![PartStart + ResSectors + (3 \div BytesPerSec)]
                          [(3 % BytesPerSec) + 1] = Raw(raw)]
          /\ vol = IF isFAT32 THEN [mbr |-> Mbr, bpb |-> Bpb]
                   ELSE [mbr |-> [Mbr EXCEPT !.prPartType = PART_TYPE_FAT16],
                         bpb |-> Bpb16]
          /\ fs = fat_init(dev, vol.mbr, vol.bpb, -1).fs
          /\ fat = NoFile
          /\ last = NoLast
          /\ hist = NoHist
          /\ nops = 0
          /\ lb = NoLine
          /\ sd = NoCard

\* r is what fat_entry_get returned for cluster
EntryGot(r, cluster) ==
    Step(r.w, fat, [NoLast EXCEPT !.op = "entry", !.arg = cluster, !.ret = r.v], hist)

EntryGet(junk, cluster) ==
    EntryGot(fat_entry_get([W EXCEPT !.junk = junk], cluster), cluster)

EntryNext ==
    \E junk \in Junk, cluster \in CLUST_FIRST..(FatEntries - 1) : EntryGet(junk, cluster)

EntrySpec == EntryInit /\ [][EntryNext]_vars

(***************************************************************************)
(* Long requests.  The calls are opens and closes as in Spec, and reads    *)
(* and writes whose length is 2^16 or more.  Their data is not kept in     *)
(* last and hist.                                                          *)
(***************************************************************************)
BigLens == {U16, U16 + 1}

\* r is what fat_write returned for len bytes
BigWritten(r, len) ==
    Step(r.w, r.fat, [NoLast EXCEPT !.op = "write", !.arg = len, !.ret = r.ret], NoHist)

BigWrite(len) ==
    /\ fat.open
    /\ BigWritten(fat_write(W, fat, [j \in 1..len |-> 1 + (j % 9)]), len)

\* r is what fat_read returned for len
BigWasRead(r, len) ==
    Step(r.w, r.fat, [NoLast EXCEPT !.op = "read", !.arg = len, !.ret = r.ret], NoHist)

BigRead(len) ==
    /\ fat.open
    /\ BigWasRead(fat_read(W, fat, len), len)

BigNext ==
    \/ \E path \in Paths, mode \in Modes : Open(path, mode)
    \/ \E len \in BigLens : BigWrite(len)
    \/ \E len \in BigLens : BigRead(len)
    \/ Close

BigSpec == Init /\ [][BigNext]_vars

(***************************************************************************)
(* Properties                                                              *)
(***************************************************************************)
\* the names the calls use, without the '/'
Names == {RelPath(p) : p \in Paths}

\* C1: a file created with open(p, CREAT|RDWR) and written by writes that
\* took N bytes in all reads back, after close, as those N bytes through a
\* fresh open(p, RDONLY) and read(N).  Stated for the paths without a
\* leading '/' and for N >= 1.
C1_CreatedFileReadsBack ==
    (/\ last.op = "close"
     /\ hist.created
     /\ hist.mode = O_CREAT + O_RDWR
     /\ hist.pure
     /\ At(hist.path, 1) # CH_SLASH
     /\ Len(hist.bytes) >= 1)
    => LET r == ReadN(W, hist.path, Len(hist.bytes))
       IN r.ok /\ r.ret = Len(hist.bytes) /\ r.data = hist.bytes

\* C2: when the root directory holds a live entry for a regular file, an
\* open of '/' followed by its name, RDONLY or CREAT|RDWR, returns a handle
\* on that entry and creates no entry.
C2_SlashPathOpensExisting ==
    (/\ last.op = "open"
     /\ At(last.path, 1) = CH_SLASH
     /\ last.mode \in {O_RDONLY, O_CREAT + O_RDWR}
     /\ last.pre.found
     /\ ~last.pre.isdir)
    => /\ fat.open
       /\ ~hist.created
       /\ fat.de_sector = last.pre.de_sector
       /\ fat.de_offset = last.pre.de_offset
       /\ fat.start_cluster = last.pre.cluster

C4_UnlinkReachesDevice ==
    (last.op = "unlink" /\ last.ret = 0 /\ last.pre.found)
    => ~fat_open(Mounted(dev), last.path, O_RDONLY).fat.open

\* C5: after a file with a chain of several clusters was opened with TRUNC
\* in a write-capable mode and closed, its directory entry records the size
\* 0 and the clusters of the chain it had are free in the FAT.
C5_TruncFreesChain ==
    (/\ last.op = "close"
     /\ HasFlag(hist.mode, O_TRUNC)
     /\ hist.pure
     /\ hist.bytes = <<>>
     /\ Len(hist.chain) >= 2)
    => /\ Lookup(W, hist.path).size = 0
       /\ \A i \in 1..Len(hist.chain) : FatAt(W, hist.chain[i]) = CLUST_FREE

\* C6: after an existing file was opened WRONLY|APPEND and a write took m
\* bytes, the file reads back as the bytes it had followed by the m bytes.
C6_AppendKeepsOldBytes ==
    (/\ last.op = "write"
     /\ hist.mode = O_WRONLY + O_APPEND
     /\ ~hist.created
     /\ hist.pure
     /\ last.ret = last.arg)
    => LET r == ReadBack(W, hist.path)
       IN r.ok /\ r.data = hist.old \o hist.bytes

\* C7: with the handle open, after any calls of write, read and lseek on it,
\* lseek(0, SEEK_END) returns the size that the handle's directory slot
\* records.
C7_SeekEndIsSlotSize ==
    fat.open => fat_lseek(W, fat, 0, SEEK_END).ret = SlotSize(W, fat)

\* C7 happens: after a write that grew the file, and calls since, an
\* lseek(0, SEEK_END) has returned the size of the slot
C7_Witness ==
    /\ fat.open
    /\ last.op = "lseek"
    /\ last.arg = 0
    /\ last.mode = SEEK_END
    /\ Len(hist.bytes) >= 1
    /\ last.ret = Len(hist.old) + Len(hist.bytes)
    /\ last.ret = SlotSize(W, fat)

\* C8: for an open file and every off in 0..size, lseek(off, SEEK_SET) and
\* then read(n) return min(off + n, size) - off bytes, the bytes of the file
\* at the positions off and up, which are the bytes of its chain.
C8_SeekThenRead ==
    fat.open =>
       \A off \in 0..fat.file_size : \A n \in ReadLens :
          LET s == fat_lseek(W, fat, off, SEEK_SET)
              r == fat_read(s.w, s.fat, n)
          IN /\ s.ret = off
             /\ r.ret = Min(off + n, fat.file_size) - off
             /\ r.data = SubSeq(FileBytes(W, fat), off + 1, Min(off + n, fat.file_size))

\* C9: when open, write, unlink or close has returned, the cached sector
\* holds nothing the device lacks, and each file reads the same, in size and
\* bytes, from the device mounted afresh as from the running program.
C9_NothingUnflushed ==
    (last.op \in {"open", "write", "unlink", "close"})
    => /\ CacheCoherent(W)
       /\ \A p \in Names : ReadBack(Mounted(dev), p) = ReadBack(W, p)

\* C10: the chain from the start cluster of every live entry of a regular
\* file reaches an end-of-chain mark through FAT entries that are in use,
\* on the device as in the running program.
C10_LiveChainsEnd ==
    \A w \in {W, Mounted(dev)} : \A p \in Names :
       LET e == Lookup(w, p)
       IN (e.found /\ ~e.isdir) => GoodChain(w, e.cluster)

\* C11: with a handle open and only writes called on it since the open, the
\* size of the file, in the handle and in its directory slot, is at most
\* the number of clusters of its chain times bytes_per_cluster.
C11_SizeWithinChain ==
    (fat.open /\ hist.pure)
    => /\ fat.file_size <= Len(Chain(W, fat.start_cluster)) * fs.bytes_per_cluster
       /\ SlotSize(W, fat) <= Len(Chain(W, fat.start_cluster)) * fs.bytes_per_cluster

\* C12: after a write to a file that open created, on a path without a
\* leading '/', when every file of the root directory has bytes, the number
\* of FAT entries that are neither free nor marked bad by the formatter
\* equals the sum, over the files, of the file's size divided by
\* bytes_per_cluster and rounded up, plus the clusters of the root
\* directory's chain.
C12_AllocatedMatchesSizes ==
    LET bpc == fs.bytes_per_cluster
        used == {c \in CLUST_FIRST..(FatEntries - 1) :
                    FatAt(W, c) \notin {CLUST_FREE, BitAnd(CLUST_BAD, FAT32_MASK)}}
        file(p) == Lookup(W, p).found /\ ~Lookup(W, p).isdir
        need(p) == IF file(p) THEN (Lookup(W, p).size + bpc - 1) \div bpc ELSE 0
        sum[S \in SUBSET Names] ==
            IF S = {} THEN 0
            ELSE LET p == CHOOSE q \in S : TRUE IN need(p) + sum[S \ {p}]
    IN (/\ last.op = "write"
        /\ hist.created
        /\ hist.pure
        /\ At(hist.path, 1) # CH_SLASH
        /\ \A p \in Names : file(p) => Lookup(W, p).size > 0)
       => Cardinality(used) = sum[Names] + Len(Chain(W, fs.root_dir_cluster))

\* C13: whenever dirty is false and the cache is tagged with a sector of the
\* device, the cached buffer equals what the device holds in that sector.
C13_CleanCacheIsDevice ==
    (~fs.dirty /\ DevHas(W, fs.sector)) => fs.sector_buffer = dev[fs.sector]

\* C14: no call tags the cache with another sector while the buffer is
\* dirty: the dirty buffer is written to the device, under the sector it is
\* tagged with, before the tag changes.
C14_NoDirtySectorDiscarded == ~last.lost

\* C15: from any state of the volume and for any sector, a cache read of the
\* sector followed by a second cache read of the same sector, with nothing
\* or a cache write of that sector in between, reads the device once at most.
C15_OneDeviceRead ==
    \A s \in Sectors :
       LET w1 == fat_sector_cache_read(W, s)
       IN /\ fat_sector_cache_read(w1, s).reads <= 1
          /\ fat_sector_cache_read(fat_sector_cache_write(w1, s), s).reads <= 1

\* C15 happens: after a call, the first of two cache reads of a sector that
\* is not the cached one reads the device, and the second does not
C15_Witness ==
    /\ last.op = "write"
    /\ \E s \in Sectors :
          /\ s # fs.sector
          /\ fat_sector_cache_read(W, s).reads = 1
          /\ fat_sector_cache_read(fat_sector_cache_read(W, s), s).reads = 1

\* C16: when the chain of the root directory is acyclic (no cluster occurs
\* twice in it), no scan of the directory in the next call makes MaxScan
\* steps without reaching a slot whose first name byte is 0x00, which it
\* reaches in a sector of the directory or in the zero-filled sector the
\* extension adds.
C16_ScansTerminate ==
    [][(LET ch == Chain(W, fs.root_dir_cluster)
        IN \A i, j \in 1..Len(ch) : i # j => ch[i] # ch[j])
       => ~last'.spun]_vars

\* C16 happens: an open has created a file in the last slot of the root
\* directory's first sector, so the scan for the slot of the terminator
\* left the sector, extended the directory and stopped there
C16_Witness ==
    /\ last.op = "open"
    /\ hist.created
    /\ fat.open
    /\ fat.de_offset = BytesPerSec - SizeofDe
    /\ last.lost
    /\ ~last.spun

\* C17: with a partition record in sector 0 and a parameter block without
\* zeros, fat_init returns a volume exactly for the partition types 0x06,
\* 0x0B, 0x0C and 0x0E, and the volume is FAT32 exactly for 0x0B and 0x0C.
C17_MountByPartitionType ==
    (/\ last.op = "mount"
     /\ vol.mbr.jump = 0
     /\ vol.bpb.bpbBytesPerSec # 0
     /\ vol.bpb.bpbSecPerClust # 0)
    => /\ last.err = "OK"
          <=> vol.mbr.prPartType \in {PART_TYPE_FAT16, PART_TYPE_FAT32,
                                      PART_TYPE_FAT32LBA, PART_TYPE_FAT16LBA}
       /\ last.err = "OK"
          => (fs.isFAT32
                <=> vol.mbr.prPartType \in {PART_TYPE_FAT32, PART_TYPE_FAT32LBA})

\* C18: for a partition of a type fat_init recognises whose parameter block
\* has bytes per sector 0 or sectors per cluster 0, fat_init returns no
\* volume and does not trap, whatever the division by zero does.
C18_MountRejectsZeroGeometry ==
    (/\ last.op = "mount"
     /\ vol.mbr.jump = 0
     /\ vol.mbr.prPartType \in {PART_TYPE_FAT16, PART_TYPE_FAT32, PART_TYPE_FAT32LBA}
     /\ (vol.bpb.bpbBytesPerSec = 0 \/ vol.bpb.bpbSecPerClust = 0))
    => last.err = "NULL"

\* C19: on a FAT16 volume, open(name, CREAT|RDWR) for a name without '/'
\* that the root directory does not hold returns a handle on a file it
\* created, and the root directory holds the name afterwards.
C19_Fat16CreatesInRoot ==
    (/\ last.op = "open"
     /\ ~fs.isFAT32
     /\ last.mode = O_CREAT + O_RDWR
     /\ At(last.path, 1) # CH_SLASH
     /\ ~last.pre.found)
    => /\ fat.open
       /\ hist.created
       /\ Lookup(W, last.path).found

\* C20: a write on a handle whose mode has neither O_WRONLY nor O_RDWR
\* returns -1, its error return, and changes nothing: the handle with its offset
\* and size, the cache, and every sector of the device, the FAT, the
\* directory and the data among them, are as before the call.
C20_WriteNeedsWritableMode ==
    [][(/\ fat.open
        /\ ~(HasFlag(fat.mode, O_RDWR) \/ HasFlag(fat.mode, O_WRONLY))
        /\ last'.op = "write")
       => (/\ last'.ret = -1
           /\ fat' = fat
           /\ fs' = fs
           /\ dev' = dev)]_vars

\* C20 happens: a write on a handle opened O_RDONLY has returned -1
C20_Witness ==
    /\ last.op = "write"
    /\ last.ret = -1
    /\ fat.open
    /\ fat.mode = O_RDONLY
    /\ hist.mode = O_RDONLY

\* C21: a write made while the device fails its writes, on a handle open for
\* writing, stores nothing, so it returns no byte count above 0 and leaves
\* the size of the file as it was; and the cache, whose flush failed, is
\* not left clean with a buffer that differs from the device.
C21_DeviceWriteFailurePropagates ==
    [][(/\ last'.op = "write"
        /\ last'.wfail
        /\ (HasFlag(fat.mode, O_RDWR) \/ HasFlag(fat.mode, O_WRONLY)))
       => (/\ last'.ret <= 0
           /\ fat'.file_size = fat.file_size
           /\ (fs'.sector_buffer # dev'[fs'.sector] => fs'.dirty))]_vars

\* an open of a long name succeeds.  The first sector of the root directory
\* holds at slot j a short entry preceded by the long-name slots 1..n whose
\* fragments, each placed at (sequence number - 1) * WIN_CHARS, make up the
\* name asked for; with lastFirst the slots are in the order of the on-disk
\* format, the last fragment first and marked WIN_LAST.  The open is
\* without O_CREAT, O_TRUNC or O_APPEND; the handle has the start cluster
\* and the size of the short entry.
LongNameOpens(lastFirst) ==
    \A j \in 2..LfnSecSize, n \in 1..2 :
       LET sector == fat_sector_calc(fs, fs.root_dir_cluster)
           root   == IF fs.sector = sector THEN fs.sector_buffer ELSE dev[sector]
           path   == last'.path
           seq(i) == BitAnd(NameByte(root[i], 1), WIN_CNT)
           slotOf(q) == CHOOSE i \in (j - n)..(j - 1) : seq(i) = q
           char(i) == At(root[slotOf(((i - 1) \div WIN_CHARS) + 1)].lfn,
                         ((i - 1) % WIN_CHARS) + 1)
       IN (/\ last'.op = "open"
           /\ last'.mode \in {O_RDONLY, O_RDWR}
           /\ j - n >= 1
           /\ ~fat_de_last_p(root[j]) /\ ~fat_de_free_p(root[j])
           /\ ~fat_de_attr_long_filename_p(root[j])
           /\ ~fat_de_attr_volume_p(root[j]) /\ ~fat_de_attr_dir_p(root[j])
           /\ \A i \in (j - n)..(j - 1) :
                 ~fat_de_free_p(root[i]) /\ fat_de_attr_long_filename_p(root[i])
           /\ {seq(i) : i \in (j - n)..(j - 1)} = 1..n
           /\ lastFirst => /\ \A i \in (j - n)..(j - 1) : seq(i) = j - i
                           /\ HasFlag(NameByte(root[j - n], 1), WIN_LAST)
           /\ Len(path) > (n - 1) * WIN_CHARS /\ Len(path) <= n * WIN_CHARS
           /\ \A i \in 1..Len(path) : char(i) = path[i]
           /\ Len(path) < n * WIN_CHARS => char(Len(path) + 1) = 0)
          => (/\ last'.err = "OK"
              /\ fat'.open
              /\ fat'.start_cluster = root[j].clus
              /\ fat'.file_size = root[j].size)

C23_IteratorCoversChunk ==
    LET RECURSIVE Advance(_, _)
        Advance(n, k) == IF k = 0 THEN n ELSE Advance(fat_de_next(n.w, n.it), k - 1)
        first == fat_de_first(W, fs.root_dir_cluster)
        n == Advance(first, fs.bytes_per_sector \div SizeofDe)
    IN (/\ fat_dir_sectors(fs, fs.root_dir_cluster) > 1
        /\ \A i \in DOMAIN first.w.fs.sector_buffer :
              ~fat_de_last_p(first.w.fs.sector_buffer[i]))
       => /\ n.it.cluster = fs.root_dir_cluster
          /\ n.it.sector = first.it.sector + 1
          /\ n.it.offset = 0
          /\ Chain(n.w, fs.root_dir_cluster) = Chain(W, fs.root_dir_cluster)

\* C24: when the iterator, advanced over a first sector of the root
\* directory that has no end mark, adds a cluster to the directory whose
\* chain ended at the root cluster, then once the cache is flushed the FAT
\* on the device links the root cluster to the new cluster, the new
\* cluster's entry is an end-of-chain mark, and the first sector of the new
\* cluster on the device is filled with zeros.
C24_ExtensionReachesDevice ==
    LET RECURSIVE Advance(_, _)
        Advance(n, k) == IF k = 0 THEN n ELSE Advance(fat_de_next(n.w, n.it), k - 1)
        root == fs.root_dir_cluster
        first == fat_de_first(W, root)
        n == Advance(first, fs.bytes_per_sector \div SizeofDe)
        new == n.it.cluster
        f == fat_sector_cache_flush(n.w)
        onDevice == [f EXCEPT !.fs.sector = 0, !.fs.sector_buffer = f.dev[0]]
    IN (/\ \A i \in DOMAIN first.w.fs.sector_buffer :
              ~fat_de_last_p(first.w.fs.sector_buffer[i])
        /\ fat_cluster_last_p(FatAt(W, root))
        /\ new >= CLUST_FIRST /\ new # root)
       => /\ FatAt(onDevice, root) = new
          /\ fat_cluster_last_p(FatAt(onDevice, new))
          /\ f.dev[fat_sector_calc(fs, new)] = ZeroSector(Len(fs.sector_buffer))

\* C25: after a write that the mode of the handle allows, the size of the
\* file, in the handle and in its directory slot, is the larger of the size
\* before the write and the offset after it.
C25_SizeIsMaxOfOldAndOffset ==
    [][(last'.op = "write" /\ last'.ret >= 0)
       => LET size == IF fat'.file_offset > fat.file_size
                      THEN fat'.file_offset ELSE fat.file_size
          IN /\ fat'.file_size = size
             /\ SlotSize([fs |-> fs', dev |-> dev', lost |-> FALSE, reads |-> 0,
                          spun |-> FALSE, wfail |-> FALSE, junk |-> 0, rfail |-> FALSE, aimed |-> {}], fat') = size]_vars

\* C26: no call replaces the link of a cluster to its successor by another
\* link: a FAT entry that names a next cluster of the volume names the same
\* cluster after the call, unless the call freed the entry.
C26_LinksNotOverwritten ==
    [][last'.op # "mount"
       => \A c \in CLUST_FIRST..(FatEntries - 1) :
            (FatAt(W, c) >= CLUST_FIRST /\ FatAt(W, c) < FatEntries)
            => FatAt([fs |-> fs', dev |-> dev', lost |-> FALSE, reads |-> 0,
                      spun |-> FALSE, wfail |-> FALSE, junk |-> 0, rfail |-> FALSE, aimed |-> {}], c)
                 \in {FatAt(W, c), CLUST_FREE}]_vars

C28_UnlinkMarksLongNameSlots ==
    [][\A j \in 2..LfnSecSize, n \in 1..2 :
         LET sector == fat_sector_calc(fs, fs.root_dir_cluster)
             root   == IF fs.sector = sector THEN fs.sector_buffer ELSE dev[sector]
             after  == IF fs'.sector = sector THEN fs'.sector_buffer ELSE dev'[sector]
         IN (/\ last'.op = "unlink"
             /\ last'.ret = 0
             /\ last'.err = "OK"
             /\ last'.pre.found
             /\ last'.pre.de_sector = sector
             /\ last'.pre.de_offset = (j - 1) * SizeofDe
             /\ j - n >= 1
             /\ \A i \in (j - n)..(j - 1) :
                   ~fat_de_free_p(root[i]) /\ fat_de_attr_long_filename_p(root[i]))
            => \A i \in (j - n)..j : fat_de_free_p(after[i])]_vars

\* C29: what fat_entry_get returns for a cluster is a function of the
\* stored entry under the mask of the variant, FAT32_MASK or FAT16_MASK:
\* CLUST_EOFS when the masked entry is at or above the masked CLUST_EOFS,
\* and the masked entry otherwise.
C29_EntryIsMaskedValue ==
    last.op = "entry"
    => LET mask == IF fs.isFAT32 THEN FAT32_MASK ELSE FAT16_MASK
           masked == BitAnd(Val(BufGet(W, FatIndex(fs, last.arg))), mask)
       IN last.ret = IF masked >= BitAnd(CLUST_EOFS, mask) THEN CLUST_EOFS ELSE masked

\* C30: an open with O_CREAT of the path a/b or x/b, whose first component
\* is a regular file or is missing (the volume has no directory), returns
\* no handle and leaves every sector as it was, in the cache when the
\* cache holds the sector and on the device otherwise: no directory entry
\* is written and no FAT entry set.
C30_CreateNeedsDirectories ==
    \A path \in {<<97, CH_SLASH, 98>>, <<120, CH_SLASH, 98>>} :
       LET r == fat_open(W, path, O_CREAT + O_RDWR)
           sectorOf(w, s) == IF w.fs.sector = s THEN w.fs.sector_buffer ELSE w.dev[s]
       IN /\ ~r.fat.open
          /\ \A s \in DOMAIN dev : sectorOf(r.w, s) = sectorOf(W, s)

\* C31: a read or a write of 2^16 bytes or more, the write on a handle
\* open for writing, returns the number of bytes it moved, which is the
\* number the file offset advances by, and for a write also the number
\* the size of the file grows by.
C31_LongRequestsCountBytesMoved ==
    [][(/\ last'.op \in {"read", "write"}
        /\ last'.arg >= U16
        /\ last'.ret >= 0)
       => (/\ last'.ret = fat'.file_offset - fat.file_offset
           /\ last'.op = "write" => fat'.file_size - fat.file_size = last'.ret)]_vars

\* C32: a read from an offset that is not on a cluster boundary does not go
\* round its loop without end, whatever the device transfers: it returns
\* before MaxScan passes of the loop, in each of which nothing changed.
C32_ReadTerminates ==
    [][(last'.op = "read" /\ fat.file_offset % fs.bytes_per_cluster # 0)
       => last'.err # "STUCK"]_vars

(***************************************************************************)
(* The line buffer of src/tty/linebuffer.c.  The file holds two versions   *)
(* of the module one after the other; lb.v says which one is running.      *)
(* The ring of utility/ring.h is a bounded queue of characters: ring_putc  *)
(* stores at the write end and returns the number of characters stored,    *)
(* ring_getc takes from the read end and returns -1 on an empty ring,      *)
(* ring_peek shows what ring_getc would take.                              *)
(***************************************************************************)
RingSize == 3
MaxLineOps == 6

CH_NUL == 0
CH_BS == 8
CH_NL == 10
CH_CR == 13
CH_A == 97

LineChars == {CH_NUL, CH_BS, CH_NL, CH_CR, CH_A}

GetsSizes == 1..(RingSize + 1)

ring_putc(ring, ch) ==
    IF Len(ring) < RingSize
    THEN [ring |-> Append(ring, ch), ret |-> 1]
    ELSE [ring |-> ring, ret |-> 0]

ring_getc(ring) ==
    IF ring = <<>>
    THEN [ring |-> ring, ret |-> -1]
    ELSE [ring |-> Tail(ring), ret |-> Head(ring)]

ring_peek(ring) == IF ring = <<>> THEN -1 ELSE Head(ring)

\* the first version tests the new line was stored and keeps a backspace from
\* taking a new line; the second version ignores nulls and tests neither
linebuffer_add(l, ch) ==
    IF l.v = 2 /\ ch = CH_NUL
    THEN l
    ELSE IF ch = CH_BS
    THEN IF l.v = 1 /\ ring_peek(l.ring) = CH_NL
         THEN l
         ELSE [l EXCEPT !.ring = ring_getc(l.ring).ring]
    ELSE IF ch \in {CH_CR, CH_NL}
    THEN [l EXCEPT !.ring = ring_putc(l.ring, CH_NL).ring,
                   !.newlines = IF l.v = 1 /\ ring_putc(l.ring, CH_NL).ret = 0
                                THEN @
                                ELSE (@ + 1) % U8]
    ELSE [l EXCEPT !.ring = ring_putc(l.ring, ch).ring]

\* spun: the first version never returns once it finds the ring empty while
\* newlines is not zero
linebuffer_getc(l) ==
    IF l.newlines = 0
    THEN [l |-> l, ret |-> -1, spun |-> FALSE]
    ELSE IF l.v = 1 /\ ring_getc(l.ring).ret = -1
    THEN [l |-> l, ret |-> -1, spun |-> TRUE]
    ELSE [l |-> [l EXCEPT !.ring = ring_getc(l.ring).ring,
                          !.newlines = IF ring_getc(l.ring).ret = CH_NL
                                       THEN @ - 1
                                       ELSE @],
          ret |-> ring_getc(l.ring).ret,
          spun |-> FALSE]

\* buffer[i] = ch in the caller's array of size bytes: an index outside
\* 0..size-1 lands in memory that is not the buffer and is recorded in stray
Store(l, i, ch) ==
    IF i >= 0 /\ i < l.size
    THEN [l EXCEPT !.buffer[i + 1] = ch]
    ELSE [l EXCEPT !.stray = @ \cup {i}]

GetsStore(g, i) == Store(g.l, i, g.ret)

RECURSIVE GetsLoop(_, _)
GetsLoop(l, i) ==
    IF i < l.size - 1
    THEN IF linebuffer_getc(l).ret = CH_NL
         THEN Store(GetsStore(linebuffer_getc(l), i), i + 1, 0)
         ELSE GetsLoop(GetsStore(linebuffer_getc(l), i), i + 1)
    ELSE Store(l, i + 1, 0)

\* ret 1 stands for the returned buffer pointer; a byte of the buffer the call
\* never wrote is -2
linebuffer_gets(l, size) ==
    IF l.newlines = 0
    THEN [l EXCEPT !.ret = 0, !.size = size, !.buffer = [j \in 1..size |-> -2],
                   !.stray = {}]
    ELSE [GetsLoop([l EXCEPT !.size = size, !.buffer = [j \in 1..size |-> -2],
                             !.stray = {}], 0)
          EXCEPT !.ret = 1]

LineInit ==
    /\ dev = MkDev(0, FALSE, 0)
    /\ fs = fat_init(dev, Mbr, Bpb, -1).fs
    /\ vol = [mbr |-> Mbr, bpb |-> Bpb]
    /\ fat = NoFile
    /\ last = NoLast
    /\ hist = NoHist
    /\ nops = 0
    /\ sd = NoCard
    /\ \E v \in {1, 2} : lb = [NoLine EXCEPT !.v = v]

LineStep(l) ==
    /\ nops < MaxLineOps
    /\ nops' = nops + 1
    /\ lb' = l
    /\ UNCHANGED <<fs, dev, vol, fat, last, hist, sd>>

Add(ch) ==
    LineStep([linebuffer_add(lb, ch) EXCEPT !.op = "add", !.ret = ch, !.size = 0,
                                            !.buffer = <<>>, !.stray = {}])

Got(g) ==
    LineStep([g.l EXCEPT !.op = IF g.spun THEN "spin" ELSE "getc", !.ret = g.ret,
                         !.size = 0, !.buffer = <<>>, !.stray = {}])

Getc == Got(linebuffer_getc(lb))

Gets(size) ==
    /\ lb.v = 2
    /\ LineStep([linebuffer_gets(lb, size) EXCEPT !.op = "gets"])

LineNext ==
    \/ \E ch \in LineChars : Add(ch)
    \/ Getc
    \/ \E size \in GetsSizes : Gets(size)

LineSpec == LineInit /\ [][LineNext]_vars

RECURSIVE Newlines(_)
Newlines(ring) ==
    IF ring = <<>>
    THEN 0
    ELSE (IF Head(ring) = CH_NL THEN 1 ELSE 0) + Newlines(Tail(ring))

\* C33: after any sequence of linebuffer_add and linebuffer_getc calls, adds
\* to a full ring and backspaces included, newlines is the number of new lines
\* in the ring, so that linebuffer_getc returns -1 exactly when the ring holds
\* no complete line and the next character otherwise
C33_NewlinesCountsRing ==
    [][lb'.op \in {"add", "getc", "spin"}
       => (/\ lb'.newlines = Newlines(lb'.ring)
           /\ lb'.op # "add"
              => (/\ lb'.op = "getc"
                  /\ lb'.ret = IF Newlines(lb.ring) = 0 THEN -1 ELSE Head(lb.ring)))]_vars

\* the number of characters of the first line of the ring, its new line
\* included; 0 when the ring holds no new line
RECURSIVE LineLen(_)
LineLen(ring) ==
    IF ring = <<>>
    THEN 0
    ELSE IF Head(ring) = CH_NL
    THEN 1
    ELSE IF LineLen(Tail(ring)) = 0 THEN 0 ELSE 1 + LineLen(Tail(ring))

\* C34: linebuffer_gets writes only inside buffer[0..size-1], the terminating
\* NUL included, whether the line is shorter than, equal to or longer than
\* size-1, and copies the line up to and including its new line when the
\* buffer is large enough
C34_GetsStaysInsideBuffer ==
    [][(lb'.op = "gets" /\ lb'.ret = 1)
       => (/\ lb'.stray = {}
           /\ (LineLen(lb.ring) > 0 /\ LineLen(lb.ring) < lb'.size)
              => (/\ \A j \in 1..LineLen(lb.ring) : lb'.buffer[j] = lb.ring[j]
                  /\ lb'.buffer[LineLen(lb.ring) + 1] = 0))]_vars

\* the sectors of the clusters of the chain that starts at cluster c
ChainSectors(w, c) ==
    {s \in Sectors : \E i \in 1..Len(Chain(w, c)) :
        /\ s >= fat_sector_calc(w.fs, Chain(w, c)[i])
        /\ s < fat_sector_calc(w.fs, Chain(w, c)[i]) + w.fs.sectors_per_cluster}

\* C35: every sector fat_write hands to the device for file data lies in a
\* cluster of the chain of the file written (never in the FAT, in the root
\* directory, in a cluster of another file, or at the sector computed from
\* cluster 0 or from an end-of-chain value), whatever open, read, lseek and
\* earlier writes have made of the handle
C35_DataWritesStayInChain ==
    [][last'.op = "write"
       => last'.aimed \subseteq
              ChainSectors([fs |-> fs', dev |-> dev', lost |-> FALSE, reads |-> 0,
                            spun |-> FALSE, wfail |-> FALSE, junk |-> 0,
                            rfail |-> FALSE, aimed |-> {}], fat'.start_cluster)]_vars

\* what the volume holds: the device with the cached sector laid over it
\* while that sector is dirty
Disk(f, d) ==
    [s \in DOMAIN d |-> IF f.dirty /\ f.sector = s THEN f.sector_buffer ELSE d[s]]

\* C36: an open without O_CREAT and O_TRUNC (found, not found or a
\* directory), a read, an lseek and a close leave what the volume holds
\* unchanged, however full the directory searched is
C36_ReadOnlyCallsKeepVolume ==
    [][(\/ last'.op \in {"read", "lseek", "close"}
        \/ /\ last'.op = "open"
           /\ ~HasFlag(last'.mode, O_CREAT)
           /\ ~HasFlag(last'.mode, O_TRUNC))
       => Disk(fs', dev') = Disk(fs, dev)]_vars

\* the cell of FAT entry c as the volume holds it
FatCell(f, d, c) ==
    Disk(f, d)[f.first_fat_sector + (c \div f.bytes_per_sector)][(c % f.bytes_per_sector) + 1]

(***************************************************************************)
(* A volume another system has written an empty file on.  The root         *)
(* directory holds A, and then B of size 0 whose start cluster is 0, as    *)
(* formatters and other drivers leave a file with no data.  The calls are  *)
(* those of Spec.                                                          *)
(***************************************************************************)
ZeroInit ==
    \E bad \in {0, BadClusters} :
        /\ dev = [MkDev(0, TRUE, bad) EXCEPT
                    ![PartStart + ResSectors + FatSecs][2] = HostEntry(<<66>>, 66, 32, 0, 0)]
        /\ fs = fat_init(dev, Mbr, Bpb, -1).fs
        /\ vol = [mbr |-> Mbr, bpb |-> Bpb]
        /\ fat = NoFile
        /\ last = NoLast
        /\ hist = NoHist
        /\ nops = 0
        /\ lb = NoLine
        /\ sd = NoCard

ZeroSpec == ZeroInit /\ [][Next]_vars

\* C37: no call changes FAT entry 0 or FAT entry 1, the two reserved
\* entries: not the unlink of a file whose start cluster is 0, and not the
\* walk of the root directory of a FAT16 volume
C37_ReservedEntriesKept ==
    [][(last'.op \in {"open", "read", "write", "lseek", "close", "unlink", "stats"})
       => \A c \in {0, 1} : FatCell(fs', dev', c) = FatCell(fs, dev, c)]_vars

(***************************************************************************)
(* Sequence counters.  The volume is the one of LfnInit with the long name *)
(* of 9 characters, and the counter byte of its long-name slot holds any   *)
(* of SeqBytes, as another system or a damaged volume may hold it.  The    *)
(* calls are opens and closes.                                             *)
(***************************************************************************)
SeqBytes == 0..(2 * WIN_LAST - 1)

SeqInit ==
    \E cnt \in SeqBytes :
        /\ dev = [MkLfnDev(0, LongName(9), FALSE) EXCEPT
                    ![PartStart + LfnBpb.bpbResSectors + LfnBpb.bpbBigFATsecs][1].name = <<cnt>>]
        /\ fs = fat_init(dev, Mbr, LfnBpb, -1).fs
        /\ vol = [mbr |-> Mbr, bpb |-> LfnBpb]
        /\ fat = NoFile
        /\ last = NoLast
        /\ hist = NoHist
        /\ nops = 0
        /\ lb = NoLine
        /\ sd = NoCard

SeqNext ==
    \/ \E path \in LfnPaths, mode \in Modes : Open(path, mode)
    \/ Close

SeqSpec == SeqInit /\ [][SeqNext]_vars

\* C38: every byte the search stores for the fragment with sequence number
\* seq in 1..20 lands at index (seq - 1) * 13 + k of the 256-byte staging
\* buffer, and no sequence counter a volume may hold makes the search store
\* a byte outside the buffer
C38_FragmentsStayInBuffer ==
    [][last'.op = "open"
       => LET de == dev[fs.first_data_sector][1]
              seq == BitAnd(NameByte(de, 1), WIN_CNT)
              nm == fat_search(W, last'.path, NoFF).ff.name
          IN /\ \A j \in DOMAIN nm : j >= 0 /\ j < FAT_MAXLEN
             /\ (fat_de_attr_long_filename_p(de) /\ seq \in 1..20)
                => LfnOffset(de) = (seq - 1) * WIN_CHARS]_vars

\* the staging buffer built from the long-name slots that immediately
\* precede slot i of the directory sector dir, in directory order
RECURSIVE OwnLongName(_, _)
OwnLongName(dir, i) ==
    IF i > 1 /\ ~fat_de_free_p(dir[i - 1]) /\ ~fat_de_last_p(dir[i - 1])
             /\ fat_de_attr_long_filename_p(dir[i - 1])
    THEN LfnName(dir[i - 1], OwnLongName(dir, i - 1))
    ELSE EmptyName

\* C39: the directory search returns a short entry only when the name
\* searched matches the short name of that entry or the long name held by
\* the slots immediately before it; a long match left over from slots whose
\* short entry is deleted, a volume label or '.' never makes a later entry
\* the one found
C39_FoundEntryIsTheOneNamed ==
    [][(/\ last'.op = "open"
        /\ last'.err = "OK"
        /\ ~HasFlag(last'.mode, O_CREAT))
       => LET dir == Disk(fs, dev)[fat'.de_sector]
              de == dir[fat'.de_offset + 1]
          IN \/ szWildMatch8(last'.path, dos2str(de.name, de.ext))
             \/ szWildMatch8(last'.path, NameStr(OwnLongName(dir, fat'.de_offset + 1), 0))]_vars

(***************************************************************************)
(* The checksum of the SD card driver (src/unnamed/part_000).  A call of   *)
(* sdcard_crc16 folds the bytes of a buffer into a 16-bit CRC; the buffer  *)
(* of the model holds CrcData(i) at index i.  The loop of sdcard_crc16 is  *)
(* followed pass by pass: sd.i is its uint8_t index, sd.crc its CRC,       *)
(* sd.folded the passes made, sd.wrapped whether the index went from 255   *)
(* back to 0, sd.done whether the call has returned.                       *)
(***************************************************************************)
SDCARD_BLOCK_SIZE == 512

\* the passes after which the model stops following a loop
CrcFuel == 2 * U8 + 1

CrcSizes == {0, 1, 2, U8 - 1, U8, U8 + 1, SDCARD_BLOCK_SIZE - 1, SDCARD_BLOCK_SIZE}

CrcSeeds == {0, U16 - 1}

CrcData(i) == (7 * i + 3) % U8

RECURSIVE BitXor(_, _)
BitXor(a, b) ==
    IF a = 0 THEN b
    ELSE IF b = 0 THEN a
    ELSE ((a + b) % 2) + 2 * BitXor(a \div 2, b \div 2)

\* BIT (15 - 0) | BIT (15 - 5) | BIT (15 - 12)
CrcPoly == 2^15 + 2^10 + 2^3

sdcard_crc16_bit(crc, in) ==
    IF (crc % 2) # in
    THEN BitXor(crc \div 2, CrcPoly)
    ELSE crc \div 2

RECURSIVE CrcByteLoop(_, _, _)
CrcByteLoop(crc, val, i) ==
    IF i < 8
    THEN CrcByteLoop(sdcard_crc16_bit(crc, val % 2), val \div 2, i + 1)
    ELSE crc

sdcard_crc16_byte(crc, val) == CrcByteLoop(crc, val, 0)

CrcInit ==
    /\ dev = MkDev(0, FALSE, 0)
    /\ fs = fat_init(dev, Mbr, Bpb, -1).fs
    /\ vol = [mbr |-> Mbr, bpb |-> Bpb]
    /\ fat = NoFile
    /\ last = NoLast
    /\ hist = NoHist
    /\ nops = 0
    /\ lb = NoLine
    /\ sd = NoCard

CrcStep(c) ==
    /\ sd' = c
    /\ UNCHANGED <<fs, dev, vol, fat, last, hist, nops, lb>>

\* the entry of sdcard_crc16 (crc, bytes, size): i = 0
sdcard_crc16(op, crc, size) ==
    /\ sd.done
    /\ sd.op = "none"
    /\ CrcStep([op |-> op, size |-> size, seed |-> crc, crc |-> crc, i |-> 0,
                folded |-> 0, wrapped |-> FALSE, done |-> FALSE])

Crc16(crc, size) == sdcard_crc16("crc16", crc, size)

\* sdcard_write_block, up to the checksum of the block it sends
sdcard_write_block == sdcard_crc16("write_block", 0, SDCARD_BLOCK_SIZE)

\* one pass of the loop: i < size, the byte at i is folded, i++ in 8 bits
Crc16Pass ==
    /\ ~sd.done
    /\ sd.i < sd.size
    /\ sd.folded < CrcFuel
    /\ CrcStep([sd EXCEPT !.crc = sdcard_crc16_byte(@, CrcData(sd.i)),
                          !.i = (@ + 1) % U8,
                          !.folded = @ + 1,
                          !.wrapped = @ \/ sd.i = U8 - 1])

\* the loop ends and the call returns crc
Crc16Return ==
    /\ ~sd.done
    /\ ~(sd.i < sd.size)
    /\ CrcStep([sd EXCEPT !.done = TRUE])

CrcNext ==
    \/ \E crc \in CrcSeeds, size \in CrcSizes : Crc16(crc, size)
    \/ sdcard_write_block
    \/ Crc16Pass
    \/ Crc16Return

CrcSpec == CrcInit /\ [][CrcNext]_vars

\* the CRC of the n bytes of the buffer from index lo on
RECURSIVE CrcOf(_, _, _)
CrcOf(crc, lo, n) ==
    IF n = 0 THEN crc
    ELSE IF n = 1 THEN sdcard_crc16_byte(crc, CrcData(lo))
    ELSE LET half == CrcOf(crc, lo, n \div 2)
         IN IF half >= 0 THEN CrcOf(half, lo + (n \div 2), n - (n \div 2)) ELSE half

\* C40: sdcard_crc16(crc, bytes, size) returns, and returns the CRC of
\* exactly the first size bytes, for every size up to 512: its byte index
\* does not wrap before it reaches size, so that it never makes more than
\* size passes
C40_Crc16FoldsSizeBytes ==
    sd.op \in {"crc16", "write_block"}
       => (/\ sd.i < sd.size => ~sd.wrapped
           /\ sd.folded <= sd.size
           /\ sd.done => (sd.folded = sd.size /\ sd.crc = CrcOf(sd.seed, 0, sd.size)))
====
